---- MODULE Spec2Model ----
(***************************************************************************)
(* d3x: N-body gravity engine.  Model of the Body Store (World), the       *)
(* gravity solver and the three integrators (step_rk4, step_dopri54,       *)
(* step_leapfrog).                                                         *)
(*                                                                         *)
(* Arithmetic.  The engine computes in `real' (= double, IEEE-754 binary   *)
(* floating point).  The model keeps the IEEE rules (round to nearest,     *)
(* ties to even; gradual underflow; overflow to infinity; NaN; comparisons *)
(* with NaN are false) on a narrower binary format: Prec significand bits  *)
(* and ExpBits exponent bits.  A finite value is m * 2^e with |m| < 2^Prec;*)
(* the sign of zero is not kept (no branch or division of the engine       *)
(* depends on it: every divisor is a sum of squares or at least 1e-30).    *)
(***************************************************************************)
EXTENDS Integers, Sequences, FiniteSets, TLC

\* ------------------------------------------------------------------------
\* Floating-point format
\* ------------------------------------------------------------------------
Prec == 11
ExpBits == 8

EMax == 2^(ExpBits - 1) - Prec
EMin == 3 - 2^(ExpBits - 1) - Prec

Zero == [k |-> "fin", m |-> 0, e |-> EMin]
NaN == [k |-> "nan", m |-> 0, e |-> 0]
Inf(s) == [k |-> "inf", m |-> s, e |-> 0]

IsNaN(a) == a.k = "nan"
IsInf(a) == a.k = "inf"
IsFin(a) == a.k = "fin"
IsZero(a) == a.k = "fin" /\ a.m = 0

IAbs(n) == IF n < 0 THEN 0 - n ELSE n
ISgn(n) == IF n < 0 THEN 0 - 1 ELSE 1
IMax(a, b) == IF a < b THEN b ELSE a
IMin(a, b) == IF a < b THEN a ELSE b

\* the number of bits of n >= 0: 2^(b - 1) <= n < 2^b, and 0 for n = 0
BitLen(n) == CHOOSE b \in 0..30 : n < 2^b /\ (b = 0 \/ 2^(b - 1) <= n)

\* Rounding s * M * 2^e (M > 0) to the format: nearest, ties to even.
\* PackFin: the rounded significand q1 at exponent e2
PackFin(s, q1, e2) ==
    IF q1 = 0 THEN Zero
    ELSE IF q1 = 2^Prec
         THEN IF e2 + 1 > EMax THEN Inf(s)
              ELSE [k |-> "fin", m |-> s * 2^(Prec - 1), e |-> e2 + 1]
    ELSE IF e2 > EMax THEN Inf(s)
    ELSE [k |-> "fin", m |-> s * q1, e |-> e2]

\* PackRound: quotient q, remainder r of M by 2^sh, half = 2^(sh-1)
PackRound(s, q, r, half, e2) ==
    PackFin(s, IF r > half \/ (r = half /\ q % 2 = 1) THEN q + 1 ELSE q, e2)

\* PackUp: M fits; scale it up by 2^up to the normal form
PackUp(s, M, e, up) ==
    IF e - up > EMax THEN Inf(s)
    ELSE [k |-> "fin", m |-> s * M * 2^up, e |-> e - up]

\* PackSh: n the bit length of M, sh the number of low bits to drop
PackSh(s, M, e, n, sh) ==
    IF sh <= 0 THEN PackUp(s, M, e, IMin(Prec - n, e - EMin))
    ELSE IF sh > n THEN Zero
    ELSE PackRound(s, M \div 2^sh, M % 2^sh, 2^(sh - 1), e + sh)

PackN(s, M, e, n) == PackSh(s, M, e, n, IMax(n - Prec, EMin - e))

Pack(s, M, e) == PackN(s, M, e, BitLen(M))

\* A literal m * 2^e and an integer literal
Lit(m, e) == IF m = 0 THEN Zero ELSE Pack(ISgn(m), IAbs(m), e)
FromInt(n) == Lit(n, 0)

FNeg(a) == IF a.k = "nan" THEN a ELSE [a EXCEPT !.m = 0 - a.m]
FAbs(a) == IF a.k = "nan" THEN a ELSE [a EXCEPT !.m = IAbs(a.m)]

FMul(a, b) ==
    IF a.k = "nan" \/ b.k = "nan" THEN NaN
    ELSE IF a.k = "inf" \/ b.k = "inf"
         THEN IF a.m = 0 \/ b.m = 0 THEN NaN ELSE Inf(ISgn(a.m) * ISgn(b.m))
    ELSE IF a.m = 0 \/ b.m = 0 THEN Zero
    ELSE Pack(ISgn(a.m) * ISgn(b.m), IAbs(a.m) * IAbs(b.m), a.e + b.e)

PackSigned(M, e) == IF M = 0 THEN Zero ELSE Pack(ISgn(M), IAbs(M), e)

\* hi.e >= lo.e: align the significands on lo.e and add; lo is below a
\* quarter ulp of hi once the exponents differ by Prec + 2
FAddFin(hi, lo) ==
    IF hi.e - lo.e >= Prec + 2 THEN hi
    ELSE PackSigned(hi.m * 2^(hi.e - lo.e) + lo.m, lo.e)

FAdd(a, b) ==
    IF a.k = "nan" \/ b.k = "nan" THEN NaN
    ELSE IF a.k = "inf"
         THEN IF b.k = "inf" /\ b.m # a.m THEN NaN ELSE a
    ELSE IF b.k = "inf" THEN b
    ELSE IF a.m = 0 THEN b
    ELSE IF b.m = 0 THEN a
    ELSE IF a.e >= b.e THEN FAddFin(a, b) ELSE FAddFin(b, a)

FSub(a, b) == FAdd(a, FNeg(b))

\* A finite non-zero value with its significand scaled up to Prec bits
\* (the exponent may then lie below EMin)
NormUp(a, up) == [m |-> IAbs(a.m) * 2^up, e |-> a.e - up]
Norm(a) == NormUp(a, Prec - BitLen(IAbs(a.m)))

\* the quotient of two normalised operands, Prec + 2 fraction bits and a
\* sticky bit
DivNorm(s, na, nb) ==
    Pack(s, 2 * ((na.m * 2^(Prec + 2)) \div nb.m)
            + (IF (na.m * 2^(Prec + 2)) % nb.m = 0 THEN 0 ELSE 1),
         na.e - nb.e - Prec - 3)

FDiv(a, b) ==
    IF a.k = "nan" \/ b.k = "nan" THEN NaN
    ELSE IF a.k = "inf"
         THEN IF b.k = "inf" THEN NaN
              ELSE Inf(a.m * (IF b.m < 0 THEN 0 - 1 ELSE 1))
    ELSE IF b.k = "inf" THEN Zero
    ELSE IF b.m = 0
         THEN IF a.m = 0 THEN NaN ELSE Inf(ISgn(a.m))
    ELSE IF a.m = 0 THEN Zero
    ELSE DivNorm(ISgn(a.m) * ISgn(b.m), Norm(a), Norm(b))

\* floor(sqrt(N)) for N < 2^(2 * Prec + 6), found in two digits of base 128:
\* the multiple hi of 128 below the root, then the rest
IsqrtLow(N, hi) ==
    hi + (CHOOSE l \in 0..127 :
              (hi + l) * (hi + l) <= N /\ N < (hi + l + 1) * (hi + l + 1))
Isqrt(N) ==
    IsqrtLow(N, 128 * (CHOOSE h \in 0..(2^(Prec - 4)) :
                           128 * h * 128 * h <= N
                           /\ N < 128 * (h + 1) * 128 * (h + 1)))

\* r = floor(sqrt(N)), N = m * 2^kk at exponent e - kk (even)
SqrtRoot(N, r, e2) == Pack(1, 2 * r + (IF r * r = N THEN 0 ELSE 1), (e2 \div 2) - 1)
SqrtScaled(N, e2) == SqrtRoot(N, Isqrt(N), e2)
SqrtNorm(na, kk) == SqrtScaled(na.m * 2^kk, na.e - kk)

\* std::sqrt
FSqrt(a) ==
    IF a.k = "nan" THEN NaN
    ELSE IF a.m < 0 THEN NaN
    ELSE IF a.k = "inf" THEN a
    ELSE IF a.m = 0 THEN Zero
    ELSE SqrtNorm(Norm(a),
                  IF (a.e + BitLen(a.m)) % 2 = 1 THEN Prec + 3 ELSE Prec + 4)

\* operator< on real: false when either side is NaN
FLess(a, b) ==
    IF a.k = "nan" \/ b.k = "nan" THEN FALSE
    ELSE IF a.k = "inf" THEN a.m < 0 /\ ~(b.k = "inf" /\ b.m < 0)
    ELSE IF b.k = "inf" THEN b.m > 0
    ELSE IF a.m < 0
         THEN IF b.m >= 0 THEN TRUE
              ELSE a.e > b.e \/ (a.e = b.e /\ a.m < b.m)
    ELSE IF b.m <= 0 THEN FALSE
         ELSE a.m = 0 \/ a.e < b.e \/ (a.e = b.e /\ a.m < b.m)

FLeq(a, b) ==
    IF a.k = "nan" \/ b.k = "nan" THEN FALSE ELSE ~FLess(b, a)

\* std::max(a, b) = (a < b) ? b : a
FMax(a, b) == IF FLess(a, b) THEN b ELSE a

\* std::clamp(v, lo, hi) = (v < lo) ? lo : (hi < v) ? hi : v
FClamp(v, lo, hi) == IF FLess(v, lo) THEN lo ELSE IF FLess(hi, v) THEN hi ELSE v

\* std::pow(x, 0.2): the fifth root, found by bisection on the significand
\* (the largest y of the format whose rounded fifth power does not exceed x).
\* x = m * 2^(5q + r) is rooted as (m * 2^r)^(1/5) * 2^q, so that no fifth
\* power leaves the normal range.
Sq(y) == FMul(y, y)
Pow5(y) == FMul(Sq(Sq(y)), y)

RECURSIVE RootRec(_, _, _, _)
RootRec(x, fe, r, bit) ==
    IF bit = 0 THEN r
    ELSE IF FLeq(Pow5([k |-> "fin", m |-> r + bit, e |-> fe]), x)
         THEN RootRec(x, fe, r + bit, bit \div 2)
         ELSE RootRec(x, fe, r, bit \div 2)

\* fe: the exponent of the root's significand; q: the power of two put back
RootAt(x, fe, q) ==
    [k |-> "fin", m |-> RootRec(x, fe, 2^(Prec - 1), 2^(Prec - 2)), e |-> fe + q]

RootScaled(m, q, r) ==
    RootAt([k |-> "fin", m |-> m, e |-> r],
           ((r + Prec - 1) \div 5) - (Prec - 1), q)

RootNorm(nx) == RootScaled(nx.m, nx.e \div 5, nx.e % 5)

FPow02(x) ==
    IF x.k = "nan" THEN NaN
    ELSE IF x.k = "inf" THEN Inf(1)
    ELSE IF x.m < 0 THEN NaN
    ELSE IF x.m = 0 THEN Zero
    ELSE RootNorm(Norm(x))

\* n.0 / d.0
Ratio(n, d) == FDiv(FromInt(n), FromInt(d))

One == FromInt(1)
Half == Lit(1, 0 - 1)

\* ------------------------------------------------------------------------
\* types.hpp
\* ------------------------------------------------------------------------
\* constants::G = 6.67430e-11
G == Lit(615595520, 0 - 63)

Vec3(x, y, z) == [x |-> x, y |-> y, z |-> z]

StepResult(dt_used, dt_next, error_estimate) ==
    [dt_used |-> dt_used, dt_next |-> dt_next, error_estimate |-> error_estimate]

\* ------------------------------------------------------------------------
\* World (world.hpp, world.cpp)
\* ------------------------------------------------------------------------
\* A World as default-constructed: ten empty vectors, count = 0, time = 0.0.
\* cap is the capacity the ten vectors share (they undergo the same reserve,
\* push_back and clear calls).
EmptyWorld ==
    [px |-> << >>, py |-> << >>, pz |-> << >>,
     vx |-> << >>, vy |-> << >>, vz |-> << >>,
     ax |-> << >>, ay |-> << >>, az |-> << >>,
     mass |-> << >>, count |-> 0, time |-> Zero, cap |-> 0]

\* std::vector growth on push_back (libstdc++: double the capacity when full)
GrowCap(cap, len) == IF len < cap THEN cap ELSE IF cap = 0 THEN 1 ELSE 2 * cap

\* World::reserve(n)
reserve(W, n) == [W EXCEPT !.cap = IF n > W.cap THEN n ELSE W.cap]

\* A faulty add_body, for sensitivity: the body goes to the front
add_body_front(W, pos, vel, m) ==
    [W EXCEPT !.px = <<pos.x>> \o W.px, !.py = <<pos.y>> \o W.py,
              !.pz = <<pos.z>> \o W.pz,
              !.vx = <<vel.x>> \o W.vx, !.vy = <<vel.y>> \o W.vy,
              !.vz = <<vel.z>> \o W.vz,
              !.ax = <<Zero>> \o W.ax, !.ay = <<Zero>> \o W.ay,
              !.az = <<Zero>> \o W.az,
              !.mass = <<m>> \o W.mass,
              !.count = W.count + 1]

\* World::add_body(pos, vel, m): the world after the call
add_body(W, pos, vel, m) ==
    [W EXCEPT !.px = Append(W.px, pos.x), !.py = Append(W.py, pos.y),
              !.pz = Append(W.pz, pos.z),
              !.vx = Append(W.vx, vel.x), !.vy = Append(W.vy, vel.y),
              !.vz = Append(W.vz, vel.z),
              !.ax = Append(W.ax, Zero), !.ay = Append(W.ay, Zero),
              !.az = Append(W.az, Zero),
              !.mass = Append(W.mass, m),
              !.cap = GrowCap(W.cap, Len(W.mass)),
              !.count = W.count + 1]

\* World::add_body: the value returned (count++)
add_body_ret(W) == W.count

\* A faulty clear, for sensitivity: time is not reset
clear_keeps_time(W) ==
    [W EXCEPT !.px = << >>, !.py = << >>, !.pz = << >>,
              !.vx = << >>, !.vy = << >>, !.vz = << >>,
              !.ax = << >>, !.ay = << >>, !.az = << >>,
              !.mass = << >>, !.count = 0]

\* A faulty clear, for sensitivity: the mass sequence is not cleared
clear_keeps_mass(W) ==
    [W EXCEPT !.px = << >>, !.py = << >>, !.pz = << >>,
              !.vx = << >>, !.vy = << >>, !.vz = << >>,
              !.ax = << >>, !.ay = << >>, !.az = << >>,
              !.count = 0, !.time = Zero]

\* World::clear()
clear(W) ==
    [W EXCEPT !.px = << >>, !.py = << >>, !.pz = << >>,
              !.vx = << >>, !.vy = << >>, !.vz = << >>,
              !.ax = << >>, !.ay = << >>, !.az = << >>,
              !.mass = << >>, !.count = 0, !.time = Zero]

\* ------------------------------------------------------------------------
\* Gravity solver (gravity.cpp)
\* ------------------------------------------------------------------------
\* std::fill(v.begin(), v.end(), 0.0)
Fill0(v) == << >> \o [i \in 1..Len(v) |-> Zero]

\* The inner loop body up to the force terms, one local at a time:
\* fx = G * dx * inv_dist3, ...
ForceInv(dx, dy, dz, inv_dist3) ==
    [fx |-> FMul(FMul(G, dx), inv_dist3),
     fy |-> FMul(FMul(G, dy), inv_dist3),
     fz |-> FMul(FMul(G, dz), inv_dist3)]

\* dist = sqrt(dist2); inv_dist3 = 1.0 / (dist2 * dist)
ForceAt(dx, dy, dz, dist2) ==
    ForceInv(dx, dy, dz, FDiv(One, FMul(dist2, FSqrt(dist2))))

\* A faulty distance, for sensitivity: eps2 is left out
ForceOf_unsoftened(dx, dy, dz, eps2) ==
    ForceAt(dx, dy, dz, FAdd(FAdd(FMul(dx, dx), FMul(dy, dy)), FMul(dz, dz)))

\* dist2 = dx*dx + dy*dy + dz*dz + eps2
ForceOf(dx, dy, dz, eps2) ==
    ForceAt(dx, dy, dz,
            FAdd(FAdd(FAdd(FMul(dx, dx), FMul(dy, dy)), FMul(dz, dz)), eps2))

\* dx = w.px[j] - pxi; dy = w.py[j] - pyi; dz = w.pz[j] - pzi
PairForce(W, i, j, eps2) ==
    ForceOf(FSub(W.px[j], W.px[i]), FSub(W.py[j], W.py[i]),
            FSub(W.pz[j], W.pz[i]), eps2)

\* A faulty inner loop body, for sensitivity: body j is pushed the same way
\* as body i
PairStep_same_way(st, j, f, mi, mj) ==
    [W |-> [st.W EXCEPT !.ax[j] = FAdd(@, FMul(f.fx, mi)),
                        !.ay[j] = FAdd(@, FMul(f.fy, mi)),
                        !.az[j] = FAdd(@, FMul(f.fz, mi))],
     axi |-> FAdd(st.axi, FMul(f.fx, mj)),
     ayi |-> FAdd(st.ayi, FMul(f.fy, mj)),
     azi |-> FAdd(st.azi, FMul(f.fz, mj))]

\* axi += fx * mj; ...; w.ax[j] -= fx * mi; ...
\* st carries the world and the accumulators axi, ayi, azi of body i
PairStep(st, j, f, mi, mj) ==
    [W |-> [st.W EXCEPT !.ax[j] = FSub(@, FMul(f.fx, mi)),
                        !.ay[j] = FSub(@, FMul(f.fy, mi)),
                        !.az[j] = FSub(@, FMul(f.fz, mi))],
     axi |-> FAdd(st.axi, FMul(f.fx, mj)),
     ayi |-> FAdd(st.ayi, FMul(f.fy, mj)),
     azi |-> FAdd(st.azi, FMul(f.fz, mj))]

\* A faulty inner loop, for sensitivity: it stops after the first partner
GravInner_once(st, i, j, mi, eps2) ==
    IF j > st.W.count THEN st
    ELSE PairStep(st, j, PairForce(st.W, i, j, eps2), mi, st.W.mass[j])

\* for (j = i + 1; j < n; ++j)
RECURSIVE GravInner(_, _, _, _, _)
GravInner(st, i, j, mi, eps2) ==
    IF j > st.W.count THEN st
    ELSE GravInner(PairStep(st, j, PairForce(st.W, i, j, eps2), mi, st.W.mass[j]),
                   i, j + 1, mi, eps2)

\* w.ax[i] += axi; w.ay[i] += ayi; w.az[i] += azi
AddOwn(st, i) ==
    [st.W EXCEPT !.ax[i] = FAdd(@, st.axi),
                 !.ay[i] = FAdd(@, st.ayi),
                 !.az[i] = FAdd(@, st.azi)]

\* for (i = 0; i < n; ++i)
RECURSIVE GravOuter(_, _, _)
GravOuter(W, i, eps2) ==
    IF i > W.count THEN W
    ELSE GravOuter(
             AddOwn(GravInner([W |-> W, axi |-> Zero, ayi |-> Zero, azi |-> Zero],
                              i, i + 1, W.mass[i], eps2), i),
             i + 1, eps2)

\* A faulty solver, for sensitivity: the accelerations are not zeroed first
compute_gravity_nofill(W, softening) ==
    GravOuter(W, 1, FMul(softening, softening))

\* compute_gravity(World&, real softening)
compute_gravity(W, softening) ==
    GravOuter([W EXCEPT !.ax = Fill0(@), !.ay = Fill0(@), !.az = Fill0(@)],
              1, FMul(softening, softening))

\* compute_gravity(World&) = compute_gravity(w, 0.0)
compute_gravity0(W) == compute_gravity(W, Zero)

\* ------------------------------------------------------------------------
\* Integrators (integrators.cpp): thread-local scratch
\* ------------------------------------------------------------------------
\* scratch_px .. scratch_vz are S.scratch.px .. S.scratch.vz; kNx, kNy, kNz,
\* kNvx, kNvy, kNvz are S.kN.x .. S.kN.vz (N = 1..7, k5..k7 being the
\* function-local thread_local vectors of step_dopri54).
\* An integrator runs on X = [W |-> the World, S |-> the scratch, evals |->
\* the compute_gravity calls the integrator call has made so far]; each
\* statement of the source is an operator from X to X.
NoState == [px |-> << >>, py |-> << >>, pz |-> << >>,
            vx |-> << >>, vy |-> << >>, vz |-> << >>]
NoStage == [x |-> << >>, y |-> << >>, z |-> << >>,
            vx |-> << >>, vy |-> << >>, vz |-> << >>]

\* The thread's scratch before the first step: every vector empty
EmptyScratch ==
    [scratch |-> NoState, k1 |-> NoStage, k2 |-> NoStage, k3 |-> NoStage,
     k4 |-> NoStage, k5 |-> NoStage, k6 |-> NoStage, k7 |-> NoStage]

\* std::vector<real>::resize(n): new elements are 0.0
Resize(v, n) ==
    IF n <= Len(v) THEN SubSeq(v, 1, n)
    ELSE v \o [i \in 1..(n - Len(v)) |-> Zero]

ResizeAll(r, n) == [f \in DOMAIN r |-> Resize(r[f], n)]

\* for (i = 0; i < n; ++i) v[i] = F(i): entries from n on are left alone
Upd(v, n, F(_)) == << >> \o [i \in 1..Len(v) |-> IF i <= n THEN F(i) ELSE v[i]]

ensure_scratch(S, n) ==
    IF Len(S.scratch.px) < n
    THEN [S EXCEPT !.scratch = ResizeAll(@, n),
                   !.k1 = ResizeAll(@, n), !.k2 = ResizeAll(@, n),
                   !.k3 = ResizeAll(@, n), !.k4 = ResizeAll(@, n)]
    ELSE S

\* the k5..k7 resize inside step_dopri54
ensure_k567(S, n) ==
    IF Len(S.k5.x) < n
    THEN [S EXCEPT !.k5 = ResizeAll(@, n), !.k6 = ResizeAll(@, n),
                   !.k7 = ResizeAll(@, n)]
    ELSE S

\* A faulty save_state, for sensitivity: the last body is not saved
save_state_short(S, W) ==
    [S EXCEPT !.scratch =
        [px |-> Upd(@.px, W.count - 1, LAMBDA i : W.px[i]),
         py |-> Upd(@.py, W.count - 1, LAMBDA i : W.py[i]),
         pz |-> Upd(@.pz, W.count - 1, LAMBDA i : W.pz[i]),
         vx |-> Upd(@.vx, W.count - 1, LAMBDA i : W.vx[i]),
         vy |-> Upd(@.vy, W.count - 1, LAMBDA i : W.vy[i]),
         vz |-> Upd(@.vz, W.count - 1, LAMBDA i : W.vz[i])]]

save_state(S, W) ==
    [S EXCEPT !.scratch =
        [px |-> Upd(@.px, W.count, LAMBDA i : W.px[i]),
         py |-> Upd(@.py, W.count, LAMBDA i : W.py[i]),
         pz |-> Upd(@.pz, W.count, LAMBDA i : W.pz[i]),
         vx |-> Upd(@.vx, W.count, LAMBDA i : W.vx[i]),
         vy |-> Upd(@.vy, W.count, LAMBDA i : W.vy[i]),
         vz |-> Upd(@.vz, W.count, LAMBDA i : W.vz[i])]]

\* A faulty restore_state, for sensitivity: velocities are not restored
restore_state_positions(W, S) ==
    [W EXCEPT !.px = << >> \o [i \in 1..Len(@) |-> IF i <= W.count THEN S.scratch.px[i] ELSE @[i]],
              !.py = << >> \o [i \in 1..Len(@) |-> IF i <= W.count THEN S.scratch.py[i] ELSE @[i]],
              !.pz = << >> \o [i \in 1..Len(@) |-> IF i <= W.count THEN S.scratch.pz[i] ELSE @[i]]]

restore_state(W, S) ==
    [W EXCEPT !.px = Upd(@, W.count, LAMBDA i : S.scratch.px[i]),
              !.py = Upd(@, W.count, LAMBDA i : S.scratch.py[i]),
              !.pz = Upd(@, W.count, LAMBDA i : S.scratch.pz[i]),
              !.vx = Upd(@, W.count, LAMBDA i : S.scratch.vx[i]),
              !.vy = Upd(@, W.count, LAMBDA i : S.scratch.vy[i]),
              !.vz = Upd(@, W.count, LAMBDA i : S.scratch.vz[i])]

\* kNx[i] = w.vx[i]; ...; kNvx[i] = w.ax[i]; ... for i < n
StoreK(K, W) ==
    [x |-> Upd(K.x, W.count, LAMBDA i : W.vx[i]),
     y |-> Upd(K.y, W.count, LAMBDA i : W.vy[i]),
     z |-> Upd(K.z, W.count, LAMBDA i : W.vz[i]),
     vx |-> Upd(K.vx, W.count, LAMBDA i : W.ax[i]),
     vy |-> Upd(K.vy, W.count, LAMBDA i : W.ay[i]),
     vz |-> Upd(K.vz, W.count, LAMBDA i : W.az[i])]

\* compute_gravity(w) called by an integrator
Gravity(X) == [X EXCEPT !.W = compute_gravity0(@), !.evals = @ + 1]

\* the loop storing stage derivative kN (kn = "kN")
EvalStage(X, kn) == [X EXCEPT !.S[kn] = StoreK(@, X.W)]

\* A faulty stage, for sensitivity: the stored accelerations are taken as
\* they are, without a gravity evaluation
Stage_reused(X, kn) == EvalStage(X, kn)

\* compute_gravity(w); then the loop storing stage derivative kN
Stage(X, kn) == EvalStage(Gravity(X), kn)

\* for i < n: w.px[i] = scratch_px[i] + D("x", i); ...;
\*            w.vz[i] = scratch_vz[i] + D("vz", i)
Advance(X, D(_, _)) ==
    [X EXCEPT
       !.W.px = Upd(@, X.W.count, LAMBDA i : FAdd(X.S.scratch.px[i], D("x", i))),
       !.W.py = Upd(@, X.W.count, LAMBDA i : FAdd(X.S.scratch.py[i], D("y", i))),
       !.W.pz = Upd(@, X.W.count, LAMBDA i : FAdd(X.S.scratch.pz[i], D("z", i))),
       !.W.vx = Upd(@, X.W.count, LAMBDA i : FAdd(X.S.scratch.vx[i], D("vx", i))),
       !.W.vy = Upd(@, X.W.count, LAMBDA i : FAdd(X.S.scratch.vy[i], D("vy", i))),
       !.W.vz = Upd(@, X.W.count, LAMBDA i : FAdd(X.S.scratch.vz[i], D("vz", i)))]

\* ------------------------------------------------------------------------
\* step_rk4
\* ------------------------------------------------------------------------
Two == FromInt(2)
Six == FromInt(6)

\* ensure_scratch(n); save_state(w)
rk4_begin(X) == [X EXCEPT !.S = save_state(ensure_scratch(@, X.W.count), X.W)]

\* k2 = f(t + dt/2, y + dt/2 * k1): the trial state
rk4_s2(X, dt) == Advance(X, LAMBDA f, i : FMul(FMul(Half, dt), X.S.k1[f][i]))

\* k3 = f(t + dt/2, y + dt/2 * k2): the trial state
rk4_s3(X, dt) == Advance(X, LAMBDA f, i : FMul(FMul(Half, dt), X.S.k2[f][i]))

\* k4 = f(t + dt, y + dt * k3): the trial state
rk4_s4(X, dt) == Advance(X, LAMBDA f, i : FMul(dt, X.S.k3[f][i]))

\* y_new = y + dt/6 * (k1 + 2*k2 + 2*k3 + k4)
rk4_combine(X, dt6) ==
    Advance(X, LAMBDA f, i : FMul(dt6,
        FAdd(FAdd(FAdd(X.S.k1[f][i], FMul(Two, X.S.k2[f][i])),
                  FMul(Two, X.S.k3[f][i])),
             X.S.k4[f][i])))

\* Faulty time updates, for sensitivity: w.time -= dt; w.time += dt twice
AddTime_back(X, dt) == [X EXCEPT !.W.time = FSub(@, dt)]
AddTime_twice(X, dt) == [X EXCEPT !.W.time = FAdd(FAdd(@, dt), dt)]

\* w.time += dt
AddTime(X, dt) == [X EXCEPT !.W.time = FAdd(@, dt)]

\* A faulty step_rk4, for sensitivity: gravity is evaluated once more, at the
\* returned positions
step_rk4_refreshed(W, S, dt) ==
    Gravity(AddTime(
      rk4_combine(
        Stage(rk4_s4(
          Stage(rk4_s3(
            Stage(rk4_s2(
              Stage(rk4_begin([W |-> W, S |-> S, evals |-> 0]), "k1"),
              dt), "k2"),
            dt), "k3"),
          dt), "k4"),
        FDiv(dt, Six)),
      dt))

\* step_rk4(w, dt): the world and the scratch after the call
step_rk4(W, S, dt) ==
    AddTime(
      rk4_combine(
        Stage(rk4_s4(
          Stage(rk4_s3(
            Stage(rk4_s2(
              Stage(rk4_begin([W |-> W, S |-> S, evals |-> 0]), "k1"),
              dt), "k2"),
            dt), "k3"),
          dt), "k4"),
        FDiv(dt, Six)),
      dt)

\* ------------------------------------------------------------------------
\* step_leapfrog
\* ------------------------------------------------------------------------
\* for i < n: w.vx[i] += half_dt * w.ax[i]; ...
Kick(W, half_dt) ==
    [W EXCEPT !.vx = Upd(@, W.count, LAMBDA i : FAdd(W.vx[i], FMul(half_dt, W.ax[i]))),
              !.vy = Upd(@, W.count, LAMBDA i : FAdd(W.vy[i], FMul(half_dt, W.ay[i]))),
              !.vz = Upd(@, W.count, LAMBDA i : FAdd(W.vz[i], FMul(half_dt, W.az[i])))]

\* for i < n: w.px[i] += dt * w.vx[i]; ...
Drift(W, dt) ==
    [W EXCEPT !.px = Upd(@, W.count, LAMBDA i : FAdd(W.px[i], FMul(dt, W.vx[i]))),
              !.py = Upd(@, W.count, LAMBDA i : FAdd(W.py[i], FMul(dt, W.vy[i]))),
              !.pz = Upd(@, W.count, LAMBDA i : FAdd(W.pz[i], FMul(dt, W.vz[i])))]

\* A faulty leapfrog body, for sensitivity: the drift comes last, after the
\* accelerations were recomputed
leapfrog_kkd(X, dt, half_dt) ==
    [Gravity([X EXCEPT !.W = Kick(@, half_dt)])
        EXCEPT !.W = Drift(Kick(@, half_dt), dt)]

\* A faulty leapfrog body, for sensitivity: drift first, then both kicks
leapfrog_dkk(X, dt, half_dt) ==
    [Gravity([X EXCEPT !.W = Kick(Drift(@, dt), half_dt)])
        EXCEPT !.W = Kick(@, half_dt)]

\* the kick-drift-kick body, half_dt = 0.5 * dt
leapfrog_kdk(X, dt, half_dt) ==
    [Gravity([X EXCEPT !.W = Drift(Kick(@, half_dt), dt)])
        EXCEPT !.W = Kick(@, half_dt)]

\* step_leapfrog(w, dt): the world after the call (the scratch is not used)
step_leapfrog(W, S, dt) ==
    AddTime(leapfrog_kdk([W |-> W, S |-> S, evals |-> 0], dt, FMul(Half, dt)),
            dt)

\* ------------------------------------------------------------------------
\* step_dopri54
\* ------------------------------------------------------------------------
\* Dormand-Prince 5(4) coefficients
a21 == Ratio(1, 5)
a31 == Ratio(3, 40)
a32 == Ratio(9, 40)
a41 == Ratio(44, 45)
a42 == Ratio(0 - 56, 15)
a43 == Ratio(32, 9)
a51 == Ratio(19372, 6561)
a52 == Ratio(0 - 25360, 2187)
a53 == Ratio(64448, 6561)
a54 == Ratio(0 - 212, 729)
a61 == Ratio(9017, 3168)
a62 == Ratio(0 - 355, 33)
a63 == Ratio(46732, 5247)
a64 == Ratio(49, 176)
a65 == Ratio(0 - 5103, 18656)
a71 == Ratio(35, 384)
a73 == Ratio(500, 1113)
a74 == Ratio(125, 192)
a75 == Ratio(0 - 2187, 6784)
a76 == Ratio(11, 84)

\* 5th order weights (for solution)
b1 == Ratio(35, 384)
b3 == Ratio(500, 1113)
b4 == Ratio(125, 192)
b5 == Ratio(0 - 2187, 6784)
b6 == Ratio(11, 84)

\* 4th order weights (for error estimation)
e1 == Ratio(71, 57600)
e3 == Ratio(0 - 71, 16695)
e4 == Ratio(71, 1920)
e5 == Ratio(0 - 17253, 339200)
e6 == Ratio(22, 525)
e7 == Ratio(0 - 1, 40)

\* Step size control
safety == Ratio(9, 10)
\* A faulty lower clamp, for sensitivity: the step can never shrink
min_scale_one == One
min_scale == Ratio(2, 10)
max_scale == FromInt(5)
\* the 1e-30 added to max_err
tiny == Lit(680564734, 0 - 129)

\* ensure_scratch(n); save_state(w); the k5..k7 resize
dopri_begin(X) ==
    [X EXCEPT !.S = ensure_k567(save_state(ensure_scratch(@, X.W.count), X.W),
                                X.W.count)]

\* Stage 2: the trial state
dopri_s2(X, dt) == Advance(X, LAMBDA f, i : FMul(FMul(dt, a21), X.S.k1[f][i]))

\* Stage 3: the trial state
dopri_s3(X, dt) ==
    Advance(X, LAMBDA f, i : FMul(dt,
        FAdd(FMul(a31, X.S.k1[f][i]), FMul(a32, X.S.k2[f][i]))))

\* Stage 4: the trial state
dopri_s4(X, dt) ==
    Advance(X, LAMBDA f, i : FMul(dt,
        FAdd(FAdd(FMul(a41, X.S.k1[f][i]), FMul(a42, X.S.k2[f][i])), FMul(a43,
        X.S.k3[f][i]))))

\* Stage 5: the trial state
dopri_s5(X, dt) ==
    Advance(X, LAMBDA f, i : FMul(dt,
        FAdd(FAdd(FAdd(FMul(a51, X.S.k1[f][i]), FMul(a52, X.S.k2[f][i])),
        FMul(a53, X.S.k3[f][i])), FMul(a54, X.S.k4[f][i]))))

\* Stage 6: the trial state
dopri_s6(X, dt) ==
    Advance(X, LAMBDA f, i : FMul(dt,
        FAdd(FAdd(FAdd(FAdd(FMul(a61, X.S.k1[f][i]), FMul(a62, X.S.k2[f][i])),
        FMul(a63, X.S.k3[f][i])), FMul(a64, X.S.k4[f][i])), FMul(a65,
        X.S.k5[f][i]))))

\* A faulty stage 7, for sensitivity: the stage-6 combination is used again
dopri_s7_stale(X, dt) == dopri_s6(X, dt)

\* Stage 7: the trial state
dopri_s7(X, dt) ==
    Advance(X, LAMBDA f, i : FMul(dt,
        FAdd(FAdd(FAdd(FAdd(FMul(a71, X.S.k1[f][i]), FMul(a73, X.S.k3[f][i])),
        FMul(a74, X.S.k4[f][i])), FMul(a75, X.S.k5[f][i])), FMul(a76,
        X.S.k6[f][i]))))

\* dt * |e1*k1 + e3*k3 + e4*k4 + e5*k5 + e6*k6 + e7*k7| of component f, body i
ErrTerm(S, dt, f, i) ==
    FMul(dt, FAbs(
        FAdd(FAdd(FAdd(FAdd(FAdd(FMul(e1, S.k1[f][i]), FMul(e3, S.k3[f][i])),
        FMul(e4, S.k4[f][i])), FMul(e5, S.k5[f][i])), FMul(e6, S.k6[f][i])),
        FMul(e7, S.k7[f][i]))))

\* std::max(1.0, std::sqrt(x*x + y*y + z*z))
ErrScale(x, y, z) ==
    FMax(One, FSqrt(FAdd(FAdd(FMul(x, x), FMul(y, y)), FMul(z, z))))

\* (err_px + err_py + err_pz) / scale_p
ErrPos(X, dt, i) ==
    FDiv(FAdd(FAdd(ErrTerm(X.S, dt, "x", i), ErrTerm(X.S, dt, "y", i)),
              ErrTerm(X.S, dt, "z", i)),
         ErrScale(X.W.px[i], X.W.py[i], X.W.pz[i]))

\* (err_vx + err_vy + err_vz) / scale_v
ErrVel(X, dt, i) ==
    FDiv(FAdd(FAdd(ErrTerm(X.S, dt, "vx", i), ErrTerm(X.S, dt, "vy", i)),
              ErrTerm(X.S, dt, "vz", i)),
         ErrScale(X.W.vx[i], X.W.vy[i], X.W.vz[i]))

\* A faulty error loop, for sensitivity: each component is scaled and
\* compared on its own
ErrComp(X, dt, f, i, scale) == FDiv(ErrTerm(X.S, dt, f, i), scale)
ErrPos_max(X, dt, i, scale) ==
    FMax(FMax(ErrComp(X, dt, "x", i, scale), ErrComp(X, dt, "y", i, scale)),
         ErrComp(X, dt, "z", i, scale))
ErrVel_max(X, dt, i, scale) ==
    FMax(FMax(ErrComp(X, dt, "vx", i, scale), ErrComp(X, dt, "vy", i, scale)),
         ErrComp(X, dt, "vz", i, scale))
RECURSIVE ErrLoop_components(_, _, _, _)
ErrLoop_components(X, dt, i, max_err) ==
    IF i > X.W.count THEN max_err
    ELSE ErrLoop_components(X, dt, i + 1,
             FMax(FMax(max_err,
                       ErrPos_max(X, dt, i,
                           ErrScale(X.W.px[i], X.W.py[i], X.W.pz[i]))),
                  ErrVel_max(X, dt, i,
                      ErrScale(X.W.vx[i], X.W.vy[i], X.W.vz[i]))))

\* the error loop from body i on, max_err so far; X is the state after stage 7
RECURSIVE ErrLoop(_, _, _, _)
ErrLoop(X, dt, i, max_err) ==
    IF i > X.W.count THEN max_err
    ELSE ErrLoop(X, dt, i + 1,
                 FMax(FMax(max_err, ErrPos(X, dt, i)), ErrVel(X, dt, i)))

\* Faulty step scales, for sensitivity: no clamp; no safety factor
StepScale_unclamped(tol, max_err) ==
    FMul(safety, FPow02(FDiv(tol, FAdd(max_err, tiny))))
StepScale_nosafety(tol, max_err) ==
    FClamp(FPow02(FDiv(tol, FAdd(max_err, tiny))), min_scale, max_scale)

\* scale = clamp(safety * pow(tol / (max_err + 1e-30), 0.2), min_scale, max_scale)
StepScale(tol, max_err) ==
    FClamp(FMul(safety, FPow02(FDiv(tol, FAdd(max_err, tiny)))),
           min_scale, max_scale)

\* The seven stages of step_dopri54: the state after stage 7
dopri_stages(W, S, dt) ==
    Stage(dopri_s7(
      Stage(dopri_s6(
        Stage(dopri_s5(
          Stage(dopri_s4(
            Stage(dopri_s3(
              Stage(dopri_s2(
                Stage(dopri_begin([W |-> W, S |-> S, evals |-> 0]), "k1"),
                dt), "k2"),
              dt), "k3"),
            dt), "k4"),
          dt), "k5"),
        dt), "k6"),
      dt), "k7")

\* A faulty tail, for sensitivity: a rejected step advances the time as well
dopri_finish_late(X, dt, tol, max_err, dt_next) ==
    IF FLess(tol, max_err)
    THEN [W |-> [restore_state(X.W, X.S) EXCEPT !.time = FAdd(@, dt)],
          S |-> X.S, evals |-> X.evals,
          res |-> StepResult(Zero, dt_next, max_err), accepted |-> FALSE]
    ELSE [W |-> [X.W EXCEPT !.time = FAdd(@, dt)], S |-> X.S, evals |-> X.evals,
          res |-> StepResult(dt, dt_next, max_err), accepted |-> TRUE]

\* The accept/reject tail: X the state after stage 7, max_err the error
\* estimate, dt_next = dt * scale; accepted records the branch taken
dopri_finish(X, dt, tol, max_err, dt_next) ==
    IF FLess(tol, max_err)
    THEN \* reject step and retry with smaller dt
         [W |-> restore_state(X.W, X.S), S |-> X.S, evals |-> X.evals,
          res |-> StepResult(Zero, dt_next, max_err), accepted |-> FALSE]
    ELSE \* accept step
         [W |-> [X.W EXCEPT !.time = FAdd(@, dt)], S |-> X.S, evals |-> X.evals,
          res |-> StepResult(dt, dt_next, max_err), accepted |-> TRUE]

\* Step size control, given the error estimate
dopri_control(X, dt, tol, max_err) ==
    dopri_finish(X, dt, tol, max_err, FMul(dt, StepScale(tol, max_err)))

\* The error estimate and what follows it, X being the state after stage 7
dopri_tail(X, dt, tol) == dopri_control(X, dt, tol, ErrLoop(X, dt, 1, Zero))

\* step_dopri54(w, dt, tol): the world, the scratch and the StepResult
step_dopri54(W, S, dt, tol) == dopri_tail(dopri_stages(W, S, dt), dt, tol)

\* ------------------------------------------------------------------------
\* The engine as a state machine: one World, one thread, one call at a time
\* ------------------------------------------------------------------------
MaxBodies == 2
MaxSteps == 1
MaxRun == 2
GravMax == 3
MaxViewOps == 2

\* Values the callers pass
Quarter == Lit(1, 0 - 2)
Eighth == Lit(1, 0 - 3)
\* the smallest positive (subnormal) number of the format
MinSub == Lit(1, EMin)

\* 1: a heavy body at rest at the origin (G * m is about 1.15);
\* 2: a light body on an inclined near-circular orbit around it.
\* A store may hold the same body twice: two bodies at coincident positions.
BodyPos(b) == IF b = 1 THEN Vec3(Zero, Zero, Zero) ELSE Vec3(One, Zero, Half)
BodyVel(b) == IF b = 1 THEN Vec3(Zero, Zero, Zero) ELSE Vec3(Zero, One, Quarter)
BodyMass(b) == IF b = 1 THEN Lit(1, 34) ELSE Lit(1, 30)
BodyIds == 1..2

\* Requested time increments: forward, backward, zero, and the smallest
\* positive number
DtSet == {Eighth, FNeg(Eighth), Zero, MinSub}
\* Tolerances: tight, loose, zero, negative
TolSet == {Lit(1, 0 - 27), Lit(1, 0 - 4), Zero, FNeg(One)}
\* Softening lengths: a quarter, and the smallest positive number, whose
\* square underflows to zero
SoftSet == {Quarter, MinSub}

VARIABLES
    w,         \* the World
    scr,       \* the calling thread's thread_local scratch vectors
    call,      \* the last call: operation, arguments, returned value
    pre,       \* the World as it was at entry to the last call
    inserted,  \* add_body calls since construction or the last clear
    cleared,   \* TRUE from a clear until the next add_body
    stepsLeft, \* integrator calls and view writes the session may still make
    view,      \* the px array view the caller holds, if any
    threads    \* the stores, scratch instances and positions of the threads
               \* of a two-thread session

vars == <<w, scr, call, pre, inserted, cleared, stepsLeft, view, threads>>

NoResult == StepResult(Zero, Zero, Zero)

\* op: the operation; body: the BodyIds entry passed to add_body; n, dt, tol,
\* softening: the arguments; index: add_body's return value; res: the
\* StepResult of step_dopri54; accepted: its branch; afterClear: add_body was
\* the first one after a clear
NoCall ==
    [op |-> "none", body |-> 0, n |-> 0, dt |-> Zero, tol |-> Zero,
     softening |-> Zero, index |-> 0, res |-> NoResult, accepted |-> FALSE,
     afterClear |-> FALSE, evals |-> 0, start |-> Zero, total_time |-> Zero]

\* no array view was taken yet
NoView == [taken |-> FALSE, cap |-> 0, n |-> 0]

\* a session with one thread
NoThreads ==
    [W |-> << >>, S |-> << >>, W0 |-> << >>, op |-> << >>, tol |-> << >>,
     pc |-> << >>, res |-> << >>, overlapped |-> FALSE]

Init ==
    /\ view = NoView
    /\ threads = NoThreads
    /\ w = EmptyWorld
    /\ scr = EmptyScratch
    /\ call = NoCall
    /\ pre = EmptyWorld
    /\ inserted = 0
    /\ cleared = FALSE
    /\ stepsLeft = MaxSteps

\* w.reserve(MaxBodies)
Reserve ==
    /\ w' = reserve(w, MaxBodies)
    /\ pre' = w
    /\ call' = [NoCall EXCEPT !.op = "reserve", !.n = MaxBodies]
    /\ UNCHANGED <<scr, inserted, cleared, stepsLeft, view, threads>>

\* idx = w.add_body(pos, vel, m)
AddBody ==
    /\ w.count < MaxBodies
    /\ \E b \in BodyIds :
        /\ w' = add_body(w, BodyPos(b), BodyVel(b), BodyMass(b))
        /\ call' = [NoCall EXCEPT !.op = "add_body", !.body = b,
                                  !.index = add_body_ret(w),
                                  !.afterClear = cleared]
    /\ pre' = w
    /\ inserted' = inserted + 1
    /\ cleared' = FALSE
    /\ UNCHANGED <<scr, stepsLeft, view, threads>>

\* w.clear()
Clear ==
    /\ w' = clear(w)
    /\ pre' = w
    /\ call' = [NoCall EXCEPT !.op = "clear"]
    /\ inserted' = 0
    /\ cleared' = TRUE
    /\ UNCHANGED <<scr, stepsLeft, view, threads>>

\* compute_gravity(w)
ComputeGravity ==
    /\ w' = compute_gravity0(w)
    /\ pre' = w
    /\ call' = [NoCall EXCEPT !.op = "compute_gravity"]
    /\ UNCHANGED <<scr, inserted, cleared, stepsLeft, view, threads>>

\* compute_gravity(w, softening)
ComputeGravitySoft ==
    \E softening \in SoftSet :
        /\ w' = compute_gravity(w, softening)
        /\ pre' = w
        /\ call' = [NoCall EXCEPT !.op = "compute_gravity_soft",
                                  !.softening = softening]
        /\ UNCHANGED <<scr, inserted, cleared, stepsLeft, view, threads>>

\* X: what step_rk4(w, dt) leaves
Rk4Return(X, dt) ==
    /\ w' = X.W
    /\ scr' = X.S
    /\ call' = [NoCall EXCEPT !.op = "step_rk4", !.dt = dt,
                              !.evals = X.evals]

\* step_rk4(w, dt)
StepRk4 ==
    /\ stepsLeft > 0
    /\ \E dt \in DtSet : Rk4Return(step_rk4(w, scr, dt), dt)
    /\ pre' = w
    /\ stepsLeft' = stepsLeft - 1
    /\ UNCHANGED <<inserted, cleared, view, threads>>

\* X: what step_leapfrog(w, dt) leaves
LeapfrogReturn(X, dt) ==
    /\ w' = X.W
    /\ call' = [NoCall EXCEPT !.op = "step_leapfrog", !.dt = dt,
                              !.evals = X.evals]

\* step_leapfrog(w, dt)
StepLeapfrog ==
    /\ stepsLeft > 0
    /\ \E dt \in DtSet : LeapfrogReturn(step_leapfrog(w, scr, dt), dt)
    /\ pre' = w
    /\ stepsLeft' = stepsLeft - 1
    /\ UNCHANGED <<scr, inserted, cleared, view, threads>>

\* r: what step_dopri54(w, dt, tol) leaves and returns. The caller keeps, over
\* the step_dopri54 calls made in a row, the time of the store before the
\* first of them (start) and the sum of the dt_used returned (total_time).
DopriReturn(r, dt, tol) ==
    /\ w' = r.W
    /\ scr' = r.S
    /\ call' = [NoCall EXCEPT !.op = "step_dopri54", !.dt = dt, !.tol = tol,
                              !.res = r.res, !.accepted = r.accepted,
                              !.evals = r.evals,
                              !.start = IF call.op = "step_dopri54"
                                        THEN call.start ELSE w.time,
                              !.total_time =
                                  FAdd(IF call.op = "step_dopri54"
                                       THEN call.total_time ELSE Zero,
                                       r.res.dt_used)]

\* X: the state after the seven stages, which do not depend on tol
DopriCall(X, dt) ==
    \E tol \in TolSet : DopriReturn(dopri_tail(X, dt, tol), dt, tol)

\* res = step_dopri54(w, dt, tol)
StepDopri54 ==
    /\ stepsLeft > 0
    /\ \E dt \in DtSet : DopriCall(dopri_stages(w, scr, dt), dt)
    /\ pre' = w
    /\ stepsLeft' = stepsLeft - 1
    /\ UNCHANGED <<inserted, cleared, view, threads>>

\* The zero-copy array views of the bindings (module.cpp), for px; the other
\* six getters are the same code on py .. mass, whose vectors grow in step
\* with px.
\* A view holds the pointer w.px.data() and the shape {w.count} of the moment
\* it was made. A vector never shrinks its capacity and every growth moves
\* it to a new buffer, so the capacity at that moment names the buffer.
\* px getter: py::array_t<real>({w.count}, {sizeof(real)}, w.px.data(), ...)
ViewPx ==
    /\ view' = [taken |-> TRUE, cap |-> w.cap, n |-> w.count]
    /\ call' = [NoCall EXCEPT !.op = "view_px"]
    /\ pre' = w
    /\ UNCHANGED <<w, scr, inserted, cleared, stepsLeft, threads>>

\* the buffer the view V points to is still the buffer of W.px
ViewAlive(W, V) == V.cap = W.cap

\* the value written through the view
ViewValue == Lit(3, 0)
\* the ten vectors of a store
Buffers == {"px", "py", "pz", "vx", "vy", "vz", "ax", "ay", "az", "mass"}

\* view[i] = x: the stores the write can leave.
\* Buffer alive, i < w.count: element i of w.px. Buffer alive, i beyond the
\* count (after clear): spare capacity, no element of the store changes.
\* Buffer freed by a growth: a write to freed memory, which the allocator
\* may have handed to any vector of the store since, or to nothing
ViewStore(W, V, i, x) ==
    IF ViewAlive(W, V)
    THEN IF i <= W.count THEN {[W EXCEPT !.px[i] = x]} ELSE {W}
    ELSE {W} \cup {[W EXCEPT ![f][j] = x] : f \in Buffers, j \in 1..W.count}

\* w.px[i] = x from Python, through the view held
ViewWrite ==
    /\ view.taken
    /\ stepsLeft > 0
    /\ \E i \in 1..view.n :
        /\ w' \in ViewStore(w, view, i, ViewValue)
        /\ call' = [NoCall EXCEPT !.op = "view_write", !.index = i]
    /\ pre' = w
    /\ stepsLeft' = stepsLeft - 1
    /\ UNCHANGED <<scr, inserted, cleared, view, threads>>

Next ==
    \/ Reserve
    \/ AddBody
    \/ Clear
    \/ ComputeGravity
    \/ ComputeGravitySoft
    \/ StepRk4
    \/ StepLeapfrog
    \/ StepDopri54

Spec == Init /\ [][Next]_vars

\* A stepping session: the caller has either a fresh store, or has built the
\* two-body orbit and primed the accelerations; from then on it only steps,
\* MaxRun times, with any of the three integrators in any order
Orbit1 == add_body(EmptyWorld, BodyPos(1), BodyVel(1), BodyMass(1))
Orbit == add_body(Orbit1, BodyPos(2), BodyVel(2), BodyMass(2))

RunFresh ==
    /\ w = EmptyWorld
    /\ call = NoCall
    /\ pre = EmptyWorld
    /\ inserted = 0

RunOrbit ==
    /\ w = compute_gravity0(Orbit)
    /\ call = [NoCall EXCEPT !.op = "compute_gravity"]
    /\ pre = Orbit
    /\ inserted = 2

RunInit ==
    /\ RunFresh \/ RunOrbit
    /\ view = NoView
    /\ threads = NoThreads
    /\ scr = EmptyScratch
    /\ cleared = FALSE
    /\ stepsLeft = MaxRun

RunNext == StepRk4 \/ StepLeapfrog \/ StepDopri54

RunSpec == RunInit /\ [][RunNext]_vars

\* The gravity solver on its own: the caller has built a store of up to
\* GravMax bodies, in any order and possibly with coincident ones, and from
\* then on only calls compute_gravity, with or without softening.
\* Bodies 1 and 2 are those above; 3 and 4 are bodies at rest whose masses
\* are not powers of two.
GravIds == 1..4
GravPos(b) ==
    IF b <= 2 THEN BodyPos(b)
    ELSE IF b = 3 THEN Vec3(FNeg(Half), Lit(3, 0 - 2), Zero)
    ELSE Vec3(Quarter, One, FNeg(One))
GravVel(b) == IF b <= 2 THEN BodyVel(b) ELSE Vec3(Zero, Zero, Zero)
GravMass(b) ==
    IF b <= 2 THEN BodyMass(b)
    ELSE IF b = 3 THEN Lit(1234, 22) ELSE Lit(1365, 20)

\* the store after add_body of the bodies bs, in order
RECURSIVE GravStore(_)
GravStore(bs) ==
    IF bs = << >> THEN EmptyWorld
    ELSE add_body(GravStore(SubSeq(bs, 1, Len(bs) - 1)),
                  GravPos(bs[Len(bs)]), GravVel(bs[Len(bs)]),
                  GravMass(bs[Len(bs)]))

GravSeqs == UNION {[1..n -> GravIds] : n \in 0..GravMax}

GravInit ==
    /\ \E bs \in GravSeqs :
        /\ w = GravStore(bs)
        /\ inserted = Len(bs)
    /\ scr = EmptyScratch
    /\ call = NoCall
    /\ pre = EmptyWorld
    /\ cleared = FALSE
    /\ stepsLeft = 0
    /\ view = NoView
    /\ threads = NoThreads

GravNext == ComputeGravity \/ ComputeGravitySoft

GravSpec == GravInit /\ [][GravNext]_vars

\* A session with array views: the caller builds and clears the store, takes
\* px views, writes through the view it holds and steps the store; steps and
\* view writes together are at most MaxViewOps
ViewInit ==
    /\ w = EmptyWorld
    /\ scr = EmptyScratch
    /\ call = NoCall
    /\ pre = EmptyWorld
    /\ inserted = 0
    /\ cleared = FALSE
    /\ stepsLeft = MaxViewOps
    /\ view = NoView
    /\ threads = NoThreads

ViewNext ==
    \/ Reserve
    \/ AddBody
    \/ Clear
    \/ StepLeapfrog
    \/ ViewPx
    \/ ViewWrite

ViewSpec == ViewInit /\ [][ViewNext]_vars

\* Two threads, each with a store of its own, each making one call of
\* step_rk4 or step_dopri54; the calls interleave stage by stage.
\* threads.W[t]: the store of thread t; threads.S[k]: scratch instance k;
\* op, tol: the call thread t makes; pc: the stages it has done; res: the
\* StepResult it got; W0: its store at entry; overlapped: a thread has run a
\* stage while the other was inside its call
Threads == 1..2
ThreadDt == Eighth
ThreadTols == {Lit(1, 0 - 27), Lit(1, 0 - 4)}
ThreadOps == {"step_rk4", "step_dopri54"}

\* A faulty scratch, for sensitivity: one instance for all threads
ScratchOf_shared(t) == 1

\* thread_local: the scratch instance a thread's call uses is the thread's own
ScratchOf(t) == t

\* the stages of step_rk4 in order; the last ends with w.time += dt
Rk4At(X, pc, dt) ==
    CASE pc = 0 -> Stage(rk4_begin(X), "k1")
      [] pc = 1 -> Stage(rk4_s2(X, dt), "k2")
      [] pc = 2 -> Stage(rk4_s3(X, dt), "k3")
      [] pc = 3 -> Stage(rk4_s4(X, dt), "k4")
      [] pc = 4 -> AddTime(rk4_combine(X, FDiv(dt, Six)), dt)
Rk4Len == 5

\* the seven stages of step_dopri54 in order
DopriAt(X, pc, dt) ==
    CASE pc = 0 -> Stage(dopri_begin(X), "k1")
      [] pc = 1 -> Stage(dopri_s2(X, dt), "k2")
      [] pc = 2 -> Stage(dopri_s3(X, dt), "k3")
      [] pc = 3 -> Stage(dopri_s4(X, dt), "k4")
      [] pc = 4 -> Stage(dopri_s5(X, dt), "k5")
      [] pc = 5 -> Stage(dopri_s6(X, dt), "k6")
      [] pc = 6 -> Stage(dopri_s7(X, dt), "k7")
DopriLen == 8

\* the store and the scratch instance thread t works on
ThreadX(t) ==
    [W |-> threads.W[t], S |-> threads.S[ScratchOf(t)], evals |-> 0]
CallLen(t) == IF threads.op[t] = "step_rk4" THEN Rk4Len ELSE DopriLen
Inside(t) == 0 < threads.pc[t] /\ threads.pc[t] < CallLen(t)
Done(t) == threads.pc[t] = CallLen(t)

\* thread t has run one more stage, leaving X; res is the StepResult so far
ThreadPut(t, X, res) ==
    /\ threads' = [threads EXCEPT
                      !.W[t] = X.W, !.S[ScratchOf(t)] = X.S,
                      !.pc[t] = @ + 1, !.res[t] = res,
                      !.overlapped = @ \/ \E u \in Threads \ {t} : Inside(u)]
    /\ UNCHANGED <<w, scr, call, pre, inserted, cleared, stepsLeft, view>>

\* thread t runs the next stage of its step_rk4 call
ThreadRk4(t) ==
    /\ threads.op[t] = "step_rk4"
    /\ threads.pc[t] < Rk4Len
    /\ ThreadPut(t, Rk4At(ThreadX(t), threads.pc[t], ThreadDt), NoResult)

\* thread t runs the next stage of its step_dopri54 call
ThreadDopri(t) ==
    /\ threads.op[t] = "step_dopri54"
    /\ threads.pc[t] < DopriLen - 1
    /\ ThreadPut(t, DopriAt(ThreadX(t), threads.pc[t], ThreadDt), NoResult)

\* r: what the error estimate and the accept/reject tail leave and return
ThreadDopriPut(t, r) == ThreadPut(t, r, r.res)

\* thread t runs the rest of its step_dopri54 call and returns
ThreadDopriReturn(t) ==
    /\ threads.op[t] = "step_dopri54"
    /\ threads.pc[t] = DopriLen - 1
    /\ ThreadDopriPut(t, dopri_tail(ThreadX(t), ThreadDt, threads.tol[t]))

\* the stores of the two threads: the two-body orbit, and three other bodies
ThreadStores == <<Orbit, GravStore(<<3, 4, 1>>)>>

ConcInit ==
    /\ \E ops \in [Threads -> ThreadOps] : \E tols \in [Threads -> ThreadTols] :
        threads = [W |-> ThreadStores, W0 |-> ThreadStores,
                   S |-> [k \in Threads |-> EmptyScratch],
                   op |-> ops, tol |-> tols,
                   pc |-> [t \in Threads |-> 0],
                   res |-> [t \in Threads |-> NoResult],
                   overlapped |-> FALSE]
    /\ w = EmptyWorld
    /\ scr = EmptyScratch
    /\ call = NoCall
    /\ pre = EmptyWorld
    /\ inserted = 0
    /\ cleared = FALSE
    /\ stepsLeft = 0
    /\ view = NoView

ConcNext ==
    \E t \in Threads : ThreadRk4(t) \/ ThreadDopri(t) \/ ThreadDopriReturn(t)

ConcSpec == ConcInit /\ [][ConcNext]_vars

\* ------------------------------------------------------------------------
\* One thread stepping several stores: the thread_local scratch is reused from
\* call to call, whatever store and body count the call is made on
\* ------------------------------------------------------------------------
\* the stores the thread steps: one, two and three bodies
ScratchStores == {Orbit1, Orbit, GravStore(<<3, 4, 1>>)}

\* the caller turns to another store; the scratch stays as the last call left it
UseStore ==
    /\ stepsLeft > 0
    /\ call.op \in {"step_rk4", "step_dopri54"}
    /\ \E W \in ScratchStores :
        /\ w' = W
        /\ pre' = W
    /\ call' = [NoCall EXCEPT !.op = "use_store"]
    /\ UNCHANGED <<scr, inserted, cleared, stepsLeft, view, threads>>

ScratchInit ==
    /\ w \in ScratchStores
    /\ pre = w
    /\ call = NoCall
    /\ scr = EmptyScratch
    /\ inserted = w.count
    /\ cleared = FALSE
    /\ stepsLeft = MaxRun
    /\ view = NoView
    /\ threads = NoThreads

ScratchNext == StepRk4 \/ StepDopri54 \/ UseStore

ScratchSpec == ScratchInit /\ [][ScratchNext]_vars

\* ------------------------------------------------------------------------
\* The driver loop of the adaptive integrator:
\*   while (total_time < target) {
\*       result = step_dopri54(w, dt, tol);
\*       if (result.dt_used > 0) total_time += result.dt_used;
\*       dt = result.dt_next; }
\* The loop's dt is the dt_next of the last result, its total_time the sum
\* kept by DopriReturn (dt never turns negative, so adding a dt_used that is
\* not positive adds zero).
\* ------------------------------------------------------------------------
\* the simulated time the loop is to cover
Target == One
\* the first step sizes and the tolerances the loop is started with
DriverDts == {Eighth, One}
DriverTols == {Lit(1, 0 - 4), Lit(1, 0 - 110)}

\* the loop condition
Looping == FLess(call.total_time, Target)

\* The loop has no bound on its iterations: stepsLeft alternates between 0
\* and 1, so that an iteration is a step even when it changes nothing else.
Iterate ==
    /\ Looping
    /\ stepsLeft' = 1 - stepsLeft

\* one iteration of the loop
DriverStep ==
    /\ Iterate
    /\ DopriReturn(step_dopri54(w, scr, call.res.dt_next, call.tol),
                   call.res.dt_next, call.tol)
    /\ pre' = w
    /\ UNCHANGED <<inserted, cleared, view, threads>>

DriverInit ==
    /\ w = Orbit
    /\ pre = Orbit
    /\ \E dt \in DriverDts : \E tol \in DriverTols :
        call = [NoCall EXCEPT !.op = "driver", !.tol = tol,
                              !.res = StepResult(Zero, dt, Zero)]
    /\ scr = EmptyScratch
    /\ inserted = 2
    /\ cleared = FALSE
    /\ stepsLeft = 0
    /\ view = NoView
    /\ threads = NoThreads

DriverNext == DriverStep

\* The loop runs on a thread of its own: while its condition holds, the next
\* iteration is made (every iteration is a DriverStep, and a DriverStep can
\* be made whenever the condition holds).
DriverSpec == DriverInit /\ [][DriverNext]_vars /\ WF_stepsLeft(Iterate)

\* ------------------------------------------------------------------------
\* Properties
\* ------------------------------------------------------------------------
PerBody == {"px", "py", "pz", "vx", "vy", "vz", "ax", "ay", "az", "mass"}
Dopri == call.op = "step_dopri54"
\* the call computed an error greater than tol / not greater than tol
ErrorAbove == Dopri /\ FLess(call.tol, call.res.error_estimate)
ErrorWithin == Dopri /\ FLeq(call.res.error_estimate, call.tol)

\* C1: after any sequence of reserve, add_body, clear, compute_gravity (with
\* or without softening), step_rk4, step_leapfrog and step_dopri54 calls, the
\* ten per-body sequences all have length count.
C1_EqualLengths == \A f \in PerBody : Len(w[f]) = w.count

\* C1 witness: a rejected adaptive step has returned on a two-body store
C1_Witness ==
    /\ Dopri
    /\ ~call.accepted
    /\ w.count = 2
    /\ \A f \in PerBody : Len(w[f]) = 2

\* C2: a step_dopri54 call whose error exceeds tol returns dt_used = 0, leaves
\* time, count and mass as they were, and returns every position and velocity
\* to its value at entry.
C2_RejectRestores ==
    ErrorAbove =>
        /\ call.res.dt_used = Zero
        /\ w.time = pre.time
        /\ w.count = pre.count
        /\ w.mass = pre.mass
        /\ \A f \in {"px", "py", "pz", "vx", "vy", "vz"} : w[f] = pre[f]

\* C2 witness: a forward step on the moving two-body store is rejected under
\* the tight tolerance, after the stages have moved the bodies
C2_Witness ==
    /\ ErrorAbove
    /\ call.dt = Eighth
    /\ call.tol = Lit(1, 0 - 27)
    /\ pre.count = 2
    /\ pre.vy[2] = One
    /\ w.vy[2] = One
    /\ scr.k7.x[2] # pre.vx[2]

\* the b-weighted combination of the stage derivatives of component f, body i
\* (b2 = 0)
FifthOrder(S, f, i) ==
    FAdd(FAdd(FAdd(FAdd(FMul(b1, S.k1[f][i]), FMul(b3, S.k3[f][i])),
                   FMul(b4, S.k4[f][i])),
              FMul(b5, S.k5[f][i])),
         FMul(b6, S.k6[f][i]))

\* C3: a step_dopri54 call is accepted exactly when its error_estimate is at
\* most tol; an accepted call returns dt_used = dt, adds dt to time, and
\* commits for every body the entry state plus dt times the b-weighted
\* combination of k1..k6.
C3_AcceptCommits ==
    Dopri =>
        /\ call.accepted <=> FLeq(call.res.error_estimate, call.tol)
        /\ ErrorWithin =>
            /\ call.res.dt_used = call.dt
            /\ w.time = FAdd(pre.time, call.dt)
            /\ \A i \in 1..pre.count :
                /\ w.px[i] = FAdd(pre.px[i], FMul(call.dt, FifthOrder(scr, "x", i)))
                /\ w.py[i] = FAdd(pre.py[i], FMul(call.dt, FifthOrder(scr, "y", i)))
                /\ w.pz[i] = FAdd(pre.pz[i], FMul(call.dt, FifthOrder(scr, "z", i)))
                /\ w.vx[i] = FAdd(pre.vx[i], FMul(call.dt, FifthOrder(scr, "vx", i)))
                /\ w.vy[i] = FAdd(pre.vy[i], FMul(call.dt, FifthOrder(scr, "vy", i)))
                /\ w.vz[i] = FAdd(pre.vz[i], FMul(call.dt, FifthOrder(scr, "vz", i)))

\* C3 witness: a forward step is accepted on the two-body store when time has
\* already advanced, and the bodies have moved
C3_Witness ==
    /\ ErrorWithin
    /\ call.accepted
    /\ call.dt = Eighth
    /\ pre.time = Eighth
    /\ w.time = Quarter
    /\ w.count = 2
    /\ w.px[2] # pre.px[2]
    /\ w.vx[2] # pre.vx[2]

\* a positive normal number: finite, with a full-width significand
PositiveNormal(x) == x.k = "fin" /\ x.m >= 2^(Prec - 1)
\* a finite number that is zero or more
FiniteNonNeg(x) == x.k = "fin" /\ x.m >= 0

\* C4 as stated: the dt_next returned by step_dopri54 is strictly positive
\* for every call.
C4_DtNextPositive == Dopri => FLess(Zero, call.res.dt_next)

\* C4 amended: when dt is a positive normal number and tol is finite and not
\* negative, the dt_next returned by step_dopri54 is strictly positive,
\* accepted or rejected.
C4_DtNextPositiveFor ==
    (Dopri /\ PositiveNormal(call.dt) /\ FiniteNonNeg(call.tol)) =>
        FLess(Zero, call.res.dt_next)

\* C4 witness: a forward step is rejected under tolerance zero, where the
\* uncapped scale would be zero, and the suggestion is dt / 5 (as rounded)
C4_Witness ==
    /\ ErrorAbove
    /\ call.dt = Eighth
    /\ call.tol = Zero
    /\ call.res.dt_next = FMul(Eighth, Ratio(2, 10))
    /\ FLess(Zero, call.res.dt_next)

\* C5 as stated: every rejected step_dopri54 call returns a dt_next strictly
\* smaller than the dt attempted.
C5_RejectShrinks == ErrorAbove => FLess(call.res.dt_next, call.dt)

\* C5 amended: a rejected step_dopri54 call whose dt is a positive normal
\* number and whose tol is finite and not negative returns a dt_next
\* strictly smaller than dt.
C5_RejectShrinksFor ==
    (ErrorAbove /\ PositiveNormal(call.dt) /\ FiniteNonNeg(call.tol)) =>
        FLess(call.res.dt_next, call.dt)

\* C5 witness: a forward step on the two-body store is rejected under the
\* tight tolerance with a suggestion between dt / 5 and dt
C5_Witness ==
    /\ ErrorAbove
    /\ ~call.accepted
    /\ call.dt = Eighth
    /\ call.tol = Lit(1, 0 - 27)
    /\ FLess(FMul(Eighth, Ratio(2, 10)), call.res.dt_next)
    /\ FLess(call.res.dt_next, Eighth)

\* dt * clamp(0.9 * (tol / (error + 1e-30))^(1/5), 0.2, 5.0)
Suggested(dt, tol, error) ==
    FMul(dt, FClamp(FMul(Ratio(9, 10), FPow02(FDiv(tol, FAdd(error, tiny)))),
                    Ratio(2, 10), FromInt(5)))

\* C6 as stated: every step_dopri54 call returns
\* dt_next = dt * clamp(0.9 * (tol / (error + 1e-30))^(1/5), 0.2, 5), and for
\* dt > 0 this lies between 0.2 * dt and 5 * dt.
C6_Suggestion ==
    Dopri =>
        /\ call.res.dt_next = Suggested(call.dt, call.tol, call.res.error_estimate)
        /\ FLess(Zero, call.dt) =>
            /\ FLeq(FMul(Ratio(2, 10), call.dt), call.res.dt_next)
            /\ FLeq(call.res.dt_next, FMul(FromInt(5), call.dt))

\* C6 amended: every step_dopri54 call returns
\* dt_next = dt * clamp(0.9 * (tol / (error + 1e-30))^(1/5), 0.2, 5), and for
\* dt > 0 and a finite tol that is not negative this lies between 0.2 * dt
\* and 5 * dt.
C6_SuggestionFor ==
    Dopri =>
        /\ call.res.dt_next = Suggested(call.dt, call.tol, call.res.error_estimate)
        /\ (FLess(Zero, call.dt) /\ FiniteNonNeg(call.tol)) =>
            /\ FLeq(FMul(Ratio(2, 10), call.dt), call.res.dt_next)
            /\ FLeq(call.res.dt_next, FMul(FromInt(5), call.dt))

\* C6 witness: an accepted forward step whose suggestion lies strictly
\* inside the clamp range
C6_Witness ==
    /\ ErrorWithin
    /\ call.dt = Eighth
    /\ FLess(Zero, call.res.error_estimate)
    /\ FLess(FMul(Ratio(2, 10), Eighth), call.res.dt_next)
    /\ FLess(call.res.dt_next, FMul(FromInt(5), Eighth))

StepOps == {"step_rk4", "step_leapfrog", "step_dopri54"}

\* C7 as stated: no step_rk4, step_leapfrog or step_dopri54 call returns with
\* time smaller than it was at entry.
C7_TimeMonotone == call.op \in StepOps => ~FLess(w.time, pre.time)

\* C7 amended: no step_rk4, step_leapfrog or step_dopri54 call with dt >= 0
\* returns with time smaller than it was at entry: time at return is at
\* least time at entry.
C7_TimeMonotoneFor ==
    (call.op \in StepOps /\ FLeq(Zero, call.dt)) => FLeq(pre.time, w.time)

\* C7 witness: a second forward step has moved time on from a non-zero value
C7_Witness ==
    /\ call.op \in StepOps
    /\ call.dt = Eighth
    /\ pre.time = Eighth
    /\ FLess(pre.time, w.time)

\* C8: step_rk4 has no reject outcome: every call, on every store and for
\* every dt, adds dt to time and leaves count and mass as they were.
C8_Rk4Advances ==
    call.op = "step_rk4" =>
        /\ w.time = FAdd(pre.time, call.dt)
        /\ w.count = pre.count
        /\ w.mass = pre.mass

\* C8 witness: step_rk4 on the empty store, time already advanced
C8_Witness ==
    /\ call.op = "step_rk4"
    /\ w.count = 0
    /\ call.dt = Eighth
    /\ pre.time = Eighth
    /\ w.time = Quarter

\* C9: add_body returns the count held before the call and adds one to it, so
\* the k-th insertion since construction or the last clear returns k - 1 and
\* count is the number of insertions since then; the new index holds the
\* given position, velocity and mass with zero acceleration; every earlier
\* entry and time are unchanged.
C9_AddBody ==
    /\ w.count = inserted
    /\ call.op = "add_body" =>
        /\ call.index = pre.count
        /\ call.index = inserted - 1
        /\ w.count = pre.count + 1
        /\ w.px[w.count] = BodyPos(call.body).x
        /\ w.py[w.count] = BodyPos(call.body).y
        /\ w.pz[w.count] = BodyPos(call.body).z
        /\ w.vx[w.count] = BodyVel(call.body).x
        /\ w.vy[w.count] = BodyVel(call.body).y
        /\ w.vz[w.count] = BodyVel(call.body).z
        /\ w.mass[w.count] = BodyMass(call.body)
        /\ w.ax[w.count] = Zero
        /\ w.ay[w.count] = Zero
        /\ w.az[w.count] = Zero
        /\ \A f \in PerBody : \A i \in 1..pre.count : w[f][i] = pre[f][i]
        /\ w.time = pre.time

\* C9 witness: the second insertion, into a store whose first body has been
\* moved by a step
C9_Witness ==
    /\ call.op = "add_body"
    /\ call.index = 1
    /\ call.body = 1
    /\ pre.time = Eighth
    /\ pre.py[1] # Zero
    /\ w.py[1] = pre.py[1]
    /\ w.count = 2

\* C10: clear leaves all ten sequences empty, count 0 and time 0 whatever
\* the state before; the first add_body after a clear returns 0.
C10_Clear ==
    /\ call.op = "clear" =>
        /\ \A f \in PerBody : w[f] = << >>
        /\ w.count = 0
        /\ w.time = Zero
    /\ (call.op = "add_body" /\ call.afterClear) => call.index = 0

\* C10 witness: clear on a two-body store whose time has advanced
C10_Witness ==
    /\ call.op = "clear"
    /\ pre.count = 2
    /\ pre.time = Eighth
    /\ w.count = 0
    /\ w.time = Zero

Leapfrog == call.op = "step_leapfrog"

\* the velocity component v after a half kick with acceleration a
HalfKick(v, a, dt) == FAdd(v, FMul(FMul(Half, dt), a))

\* the store at entry with the positions it has at return
AtNewPositions == [pre EXCEPT !.px = w.px, !.py = w.py, !.pz = w.pz]

\* C11: step_leapfrog is kick-drift-kick: every velocity is first half-kicked
\* with the acceleration stored at entry, every position then drifts a full
\* step with the kicked velocity, the accelerations are recomputed by the
\* gravity solver at these positions (which are the positions at return),
\* every velocity is half-kicked again with the new acceleration, and time
\* becomes time + dt.
C11_KickDriftKick ==
    Leapfrog =>
        /\ \A i \in 1..pre.count :
            /\ w.px[i] = FAdd(pre.px[i], FMul(call.dt, HalfKick(pre.vx[i], pre.ax[i], call.dt)))
            /\ w.py[i] = FAdd(pre.py[i], FMul(call.dt, HalfKick(pre.vy[i], pre.ay[i], call.dt)))
            /\ w.pz[i] = FAdd(pre.pz[i], FMul(call.dt, HalfKick(pre.vz[i], pre.az[i], call.dt)))
            /\ w.vx[i] = HalfKick(HalfKick(pre.vx[i], pre.ax[i], call.dt), w.ax[i], call.dt)
            /\ w.vy[i] = HalfKick(HalfKick(pre.vy[i], pre.ay[i], call.dt), w.ay[i], call.dt)
            /\ w.vz[i] = HalfKick(HalfKick(pre.vz[i], pre.az[i], call.dt), w.az[i], call.dt)
        /\ w.ax = compute_gravity0(AtNewPositions).ax
        /\ w.ay = compute_gravity0(AtNewPositions).ay
        /\ w.az = compute_gravity0(AtNewPositions).az
        /\ w.time = FAdd(pre.time, call.dt)

\* C11 witness: a forward leapfrog step on the primed two-body orbit: the
\* light body has been kicked, has drifted, and its acceleration has changed
C11_Witness ==
    /\ Leapfrog
    /\ call.dt = Eighth
    /\ pre.count = 2
    /\ pre.ax[2] # Zero
    /\ w.ax[2] # pre.ax[2]
    /\ w.px[2] # pre.px[2]
    /\ w.px[2] # FAdd(pre.px[2], FMul(call.dt, pre.vx[2]))
    /\ w.vy[2] # pre.vy[2]

\* the stored accelerations are what compute_gravity yields for the store
Fresh(W) ==
    /\ W.ax = compute_gravity0(W).ax
    /\ W.ay = compute_gravity0(W).ay
    /\ W.az = compute_gravity0(W).az

\* C12: after every step_leapfrog return the stored accelerations equal what
\* compute_gravity yields at the stored positions; and a step_leapfrog call
\* that directly follows the priming compute_gravity call or another
\* step_leapfrog call starts with such accelerations.
C12_FreshAccelerations ==
    /\ [](Leapfrog => Fresh(w))
    /\ [][(call.op \in {"compute_gravity", "step_leapfrog"}
           /\ call'.op = "step_leapfrog") => Fresh(pre')]_vars

\* C12 witness: the second of two consecutive forward leapfrog steps on the
\* primed orbit has returned; accelerations changed and are fresh again
C12_Witness ==
    /\ Leapfrog
    /\ call.dt = Eighth
    /\ pre.time = Eighth
    /\ w.time = Quarter
    /\ pre.count = 2
    /\ Fresh(pre)
    /\ Fresh(w)
    /\ w.ax[2] # pre.ax[2]
    /\ w.ax[2] # Zero

Grav == call.op \in {"compute_gravity", "compute_gravity_soft"}
\* eps2 of the last compute_gravity call
Eps2 == FMul(call.softening, call.softening)
\* the unordered pairs (i, j), i < j, of a store
Pairs(W) == {p \in (1..W.count) \X (1..W.count) : p[1] < p[2]}
\* the force terms fx, fy, fz the call computed for the pair p
Force(p) ==
    <<PairForce(pre, p[1], p[2], Eps2).fx,
      PairForce(pre, p[1], p[2], Eps2).fy,
      PairForce(pre, p[1], p[2], Eps2).fz>>
\* what the call added on axis c to the acceleration of body i = p[1] and of
\* body j = p[2]
ToI(p, c) == FMul(Force(p)[c], pre.mass[p[2]])
ToJ(p, c) == FNeg(FMul(Force(p)[c], pre.mass[p[1]]))
\* the accelerations of a store on axis c
Acc(W, c) == IF c = 1 THEN W.ax ELSE IF c = 2 THEN W.ay ELSE W.az
\* the mass-weighted sum of the accelerations of the first n bodies on axis c
RECURSIVE WeightedSum(_, _, _)
WeightedSum(W, c, n) ==
    IF n = 0 THEN Zero
    ELSE FAdd(WeightedSum(W, c, n - 1), FMul(Acc(W, c)[n], W.mass[n]))
\* a finite number that is not subnormal
Normal(x) == x.k = "fin" /\ IAbs(x.m) >= 2^(Prec - 1)
\* the distance of two finite numbers in units of the last place of the
\* smaller exponent (2^Prec and more: further apart than that)
UlpDiff(a, b) ==
    IF a.e = b.e THEN IAbs(a.m - b.m)
    ELSE IF a.e = b.e + 1 THEN IAbs(2 * a.m - b.m)
    ELSE IF b.e = a.e + 1 THEN IAbs(a.m - 2 * b.m)
    ELSE 2^Prec
WithinUlps(a, b, n) == IsFin(a) /\ IsFin(b) /\ UlpDiff(a, b) <= n

\* C13 as stated: for every unordered pair the contribution to body i times
\* mass_i and the contribution to body j times mass_j cancel exactly, and the
\* mass-weighted sum of the accelerations is zero in each axis.
C13_ThirdLaw ==
    Grav =>
        \A c \in 1..3 :
            /\ \A p \in Pairs(pre) :
                FAdd(FMul(ToI(p, c), pre.mass[p[1]]),
                     FMul(ToJ(p, c), pre.mass[p[2]])) = Zero
            /\ WeightedSum(w, c, w.count) = Zero

\* C13 (amended): both contributions of a pair come from the same force
\* term, f * mass_j to body i and -(f * mass_i) to body j; in a two-body
\* store they are the stored accelerations; a zero force term contributes
\* zero to both; and where neither they nor their mass-weighted products
\* overflow or underflow, the mass-weighted contributions are opposite to
\* within three units in the last place.
C13_ThirdLawFor ==
    Grav =>
        \A c \in 1..3 : \A p \in Pairs(pre) :
            /\ pre.count = 2 =>
                /\ Acc(w, c)[1] = ToI(p, c)
                /\ Acc(w, c)[2] = ToJ(p, c)
            /\ IsZero(Force(p)[c]) => ToI(p, c) = Zero /\ ToJ(p, c) = Zero
            /\ ( /\ Normal(ToI(p, c))
                 /\ Normal(ToJ(p, c))
                 /\ Normal(FMul(ToI(p, c), pre.mass[p[1]]))
                 /\ Normal(FMul(ToJ(p, c), pre.mass[p[2]])) )
               => WithinUlps(FMul(ToI(p, c), pre.mass[p[1]]),
                             FNeg(FMul(ToJ(p, c), pre.mass[p[2]])), 3)

\* C13 witness: gravity was computed for three bodies, and for one pair the
\* mass-weighted contributions are finite and close but do not cancel
C13_Witness ==
    /\ Grav
    /\ pre.count = 3
    /\ \E c \in 1..3 : \E p \in Pairs(pre) :
        /\ Normal(ToI(p, c))
        /\ Normal(ToJ(p, c))
        /\ FAdd(FMul(ToI(p, c), pre.mass[p[1]]),
                FMul(ToJ(p, c), pre.mass[p[2]])) # Zero
        /\ WithinUlps(FMul(ToI(p, c), pre.mass[p[1]]),
                      FNeg(FMul(ToJ(p, c), pre.mass[p[2]])), 3)

\* The naive double iteration: body i looks at every other body j from its
\* own side, d = pos_j - pos_i, and adds G * d / (dist2 * sqrt(dist2)) * mass_j
NaiveForce(W, i, j, eps2) ==
    ForceOf(FSub(W.px[j], W.px[i]), FSub(W.py[j], W.py[i]),
            FSub(W.pz[j], W.pz[i]), eps2)
NaiveTerm(W, i, j, c, eps2) ==
    IF c = 1 THEN FMul(NaiveForce(W, i, j, eps2).fx, W.mass[j])
    ELSE IF c = 2 THEN FMul(NaiveForce(W, i, j, eps2).fy, W.mass[j])
    ELSE FMul(NaiveForce(W, i, j, eps2).fz, W.mass[j])
\* acc plus the terms of the partners j .. hi of body i, in index order
RECURSIVE NaiveRun(_, _, _, _, _, _, _)
NaiveRun(W, i, c, eps2, j, hi, acc) ==
    IF j > hi THEN acc
    ELSE NaiveRun(W, i, c, eps2, j + 1, hi,
                  FAdd(acc, NaiveTerm(W, i, j, c, eps2)))
\* the sum over the partners below i plus the sum over the partners above i
NaiveAcc(W, i, c, eps2) ==
    FAdd(NaiveRun(W, i, c, eps2, 1, i - 1, Zero),
         NaiveRun(W, i, c, eps2, i + 1, W.count, Zero))

\* C14: after compute_gravity every body's acceleration is the sum over all
\* other bodies j of G * mass_j * (pos_j - pos_i) / (|pos_j - pos_i|^2 +
\* eps^2)^(3/2), as a naive double iteration computes it, for any number of
\* bodies; with no body or one body all accelerations are zero.
C14_NaiveSum ==
    Grav =>
        \A c \in 1..3 :
            /\ Len(Acc(w, c)) = pre.count
            /\ \A i \in 1..pre.count :
                /\ Acc(w, c)[i] = NaiveAcc(pre, i, c, Eps2)
                /\ pre.count = 1 => Acc(w, c)[i] = Zero

\* C14 witness: gravity was computed for three bodies at distinct places;
\* the middle body has a partner below and a partner above, and its
\* acceleration is a finite non-zero sum of both terms
C14_Witness ==
    /\ Grav
    /\ pre.count = 3
    /\ Normal(w.ax[2])
    /\ Normal(NaiveTerm(pre, 2, 1, 1, Eps2))
    /\ Normal(NaiveTerm(pre, 2, 3, 1, Eps2))
    /\ w.ax[2] = FAdd(NaiveTerm(pre, 2, 1, 1, Eps2), NaiveTerm(pre, 2, 3, 1, Eps2))
    /\ w.ax[2] # NaiveTerm(pre, 2, 1, 1, Eps2)
    /\ w.ax[2] # NaiveTerm(pre, 2, 3, 1, Eps2)

\* a store whose accelerations are replaced by NaN
Scrubbed(W) ==
    [W EXCEPT !.ax = << >> \o [i \in 1..Len(W.ax) |-> NaN],
              !.ay = << >> \o [i \in 1..Len(W.ay) |-> NaN],
              !.az = << >> \o [i \in 1..Len(W.az) |-> NaN]]

\* C15: compute_gravity overwrites the accelerations with a result that
\* does not depend on the accelerations stored before (the same result comes
\* from a store whose accelerations were anything else, and calling it again
\* changes nothing), and it leaves positions, velocities, masses, the count
\* and the time unchanged.
C15_GravityFrame ==
    Grav =>
        /\ w = compute_gravity(Scrubbed(pre), call.softening)
        /\ w = compute_gravity(w, call.softening)
        /\ w.px = pre.px /\ w.py = pre.py /\ w.pz = pre.pz
        /\ w.vx = pre.vx /\ w.vy = pre.vy /\ w.vz = pre.vz
        /\ w.mass = pre.mass
        /\ w.count = pre.count
        /\ w.time = pre.time

\* C15 witness: gravity was computed for a store that held other non-zero
\* accelerations, left by a call with another softening
C15_Witness ==
    /\ Grav
    /\ pre.count >= 2
    /\ Normal(pre.ax[2])
    /\ Normal(w.ax[2])
    /\ w.ax[2] # pre.ax[2]

\* the two bodies of the pair p were at the same place at entry
Coincident(p) ==
    /\ pre.px[p[1]] = pre.px[p[2]]
    /\ pre.py[p[1]] = pre.py[p[2]]
    /\ pre.pz[p[1]] = pre.pz[p[2]]
\* dist2 and the divisor dist2 * dist of 1.0 / (dist2 * dist) for the pair p
Dist2(p) ==
    FAdd(FAdd(FAdd(Sq(FSub(pre.px[p[2]], pre.px[p[1]])),
                   Sq(FSub(pre.py[p[2]], pre.py[p[1]]))),
              Sq(FSub(pre.pz[p[2]], pre.pz[p[1]]))), Eps2)
Divisor(p) == FMul(Dist2(p), FSqrt(Dist2(p)))
AllFinite(W) == \A c \in 1..3 : \A i \in 1..W.count : IsFin(Acc(W, c)[i])
\* both bodies of the pair p have NaN accelerations in every axis
BothNaN(p) == \A c \in 1..3 : IsNaN(Acc(w, c)[p[1]]) /\ IsNaN(Acc(w, c)[p[2]])

\* every position at entry was a finite number
FinitePositions ==
    \A i \in 1..pre.count :
        IsFin(pre.px[i]) /\ IsFin(pre.py[i]) /\ IsFin(pre.pz[i])

C17_RejectUndoesAll == ErrorAbove => w = pre

\* C17 witness: a forward step on the primed two-body orbit was rejected;
\* positions and velocities are those at entry, the accelerations are not
C17_Witness ==
    /\ ErrorAbove
    /\ call.dt = Eighth
    /\ pre.count = 2
    /\ Fresh(pre)
    /\ \A f \in {"px", "py", "pz", "vx", "vy", "vz"} : w[f] = pre[f]
    /\ w.ax[2] # pre.ax[2]
    /\ w.ax[2] = scr.k7.vx[2]

\* C18 as stated: a view handed out by the store stays valid and keeps
\* sharing memory with the store whatever store operations follow (add_body,
\* reserve, clear, steps), and a write through the view is visible to the
\* core.
C18_ViewsStayValid ==
    view.taken =>
        /\ ViewAlive(w, view)
        /\ call.op = "view_write" =>
            /\ call.index <= w.count
            /\ w.px[call.index] = ViewValue

\* C18 witness: a view of a one-body store was taken, add_body then moved
\* the vectors to a larger buffer, and the write through the view did not
\* reach the store
C18_Witness ==
    /\ view.taken
    /\ view.n = 1
    /\ view.cap = 1
    /\ w.cap = 2
    /\ w.count = 2
    /\ call.op = "view_write"
    /\ call.index = 1
    /\ w.px[1] # ViewValue
    /\ w = pre

\* the call of thread t run alone on its store at entry, with scratch S0:
\* the store it leaves and the StepResult it returns
Alone(t, S0) ==
    IF threads.op[t] = "step_rk4"
    THEN [W |-> step_rk4(threads.W0[t], S0, ThreadDt).W, res |-> NoResult]
    ELSE [W |-> step_dopri54(threads.W0[t], S0, ThreadDt, threads.tol[t]).W,
          res |-> step_dopri54(threads.W0[t], S0, ThreadDt, threads.tol[t]).res]
\* the scratch the call of thread u, run alone before, leaves behind
ScratchAfter(u) ==
    IF threads.op[u] = "step_rk4"
    THEN step_rk4(threads.W0[u], EmptyScratch, ThreadDt).S
    ELSE step_dopri54(threads.W0[u], EmptyScratch, ThreadDt, threads.tol[u]).S

\* C19: when two threads run step_rk4 or step_dopri54 concurrently on two
\* different stores, under every interleaving each store ends, and each
\* StepResult is, as if the two calls had run one after the other: as the
\* call run alone leaves them, on fresh scratch or on the scratch the other
\* call left.
C19_ThreadsIndependent ==
    \A t \in DOMAIN threads.pc :
        Done(t) =>
            /\ threads.W[t] = Alone(t, EmptyScratch).W
            /\ threads.res[t] = Alone(t, EmptyScratch).res
            /\ \A u \in Threads \ {t} :
                /\ threads.W[t] = Alone(t, ScratchAfter(u)).W
                /\ threads.res[t] = Alone(t, ScratchAfter(u)).res

\* C19 witness: both calls have returned after running interleaved, one a
\* rejected step_dopri54 and the other a step_rk4 that moved its bodies
C19_Witness ==
    /\ threads.overlapped
    /\ Done(1)
    /\ Done(2)
    /\ threads.op[1] = "step_dopri54"
    /\ threads.res[1].dt_used = Zero
    /\ FLess(threads.tol[1], threads.res[1].error_estimate)
    /\ threads.op[2] = "step_rk4"
    /\ threads.W[2].time = ThreadDt
    /\ threads.W[2].px # threads.W0[2].px

\* the trial state of the last step_dopri54 call after its seventh stage:
\* the saved entry state advanced by the stage derivatives the call left
Trial == dopri_s7([W |-> pre, S |-> scr, evals |-> 0], call.dt).W
\* dt * |e1*k1 + e3*k3 + e4*k4 + e5*k5 + e6*k6 + e7*k7| for component f of
\* body i, from the stage derivatives the call left
CompErr(f, i) ==
    FMul(call.dt, FAbs(
        FAdd(FAdd(FAdd(FAdd(FAdd(FMul(e1, scr.k1[f][i]), FMul(e3, scr.k3[f][i])),
                            FMul(e4, scr.k4[f][i])),
                       FMul(e5, scr.k5[f][i])),
                  FMul(e6, scr.k6[f][i])),
             FMul(e7, scr.k7[f][i]))))
\* max(1, |position|) and max(1, |velocity|) of body i in the trial state
ScaleP(i) ==
    FMax(One, FSqrt(FAdd(FAdd(Sq(Trial.px[i]), Sq(Trial.py[i])), Sq(Trial.pz[i]))))
ScaleV(i) ==
    FMax(One, FSqrt(FAdd(FAdd(Sq(Trial.vx[i]), Sq(Trial.vy[i])), Sq(Trial.vz[i]))))
\* the scaled single component f of body i
Scaled(f, i) ==
    FDiv(CompErr(f, i), IF f \in {"x", "y", "z"} THEN ScaleP(i) ELSE ScaleV(i))
\* e is the largest of the scaled single components of all bodies, and zero
\* (a component that is not a number is passed over, as std::max does)
ComponentMax(e) ==
    /\ \A i \in 1..pre.count : \A f \in DOMAIN NoStage :
           IsNaN(Scaled(f, i)) \/ FLeq(Scaled(f, i), e)
    /\ \/ e = Zero
       \/ \E i \in 1..pre.count : \E f \in DOMAIN NoStage : e = Scaled(f, i)
\* the scaled sum of the three components of each group of body i, and m
GroupMax(i, m) ==
    FMax(FMax(m,
        FDiv(FAdd(FAdd(CompErr("x", i), CompErr("y", i)), CompErr("z", i)),
             ScaleP(i))),
        FDiv(FAdd(FAdd(CompErr("vx", i), CompErr("vy", i)), CompErr("vz", i)),
             ScaleV(i)))
RECURSIVE MaxOfGroups(_, _)
MaxOfGroups(i, m) ==
    IF i > pre.count THEN m ELSE MaxOfGroups(i + 1, GroupMax(i, m))

\* C20 as stated: the error_estimate returned by step_dopri54 is the maximum
\* over all bodies and both groups of the per-component value
\* dt * |e1*k1 + ... + e7*k7| divided by the body's scale max(1, |position|)
\* or max(1, |velocity|).
C20_ErrorEstimate ==
    Dopri => ComponentMax(call.res.error_estimate)

\* C20 (amended): the error_estimate is the maximum, over all bodies and
\* both groups, and zero, of the sum of the group's three per-component
\* values dt * |e1*k1 + ... + e7*k7| divided by the body's scale
\* max(1, |position|) or max(1, |velocity|) in the trial state after stage 7.
C20_ErrorEstimateFor ==
    Dopri => call.res.error_estimate = MaxOfGroups(1, Zero)

\* C20 witness: a forward step on the two-body orbit returned a non-zero
\* estimate that is the largest scaled group sum and exceeds every scaled
\* single component
C20_Witness ==
    /\ Dopri
    /\ call.dt = Eighth
    /\ pre.count = 2
    /\ Normal(call.res.error_estimate)
    /\ call.res.error_estimate = MaxOfGroups(1, Zero)
    /\ \A i \in 1..pre.count : \A f \in DOMAIN NoStage :
           FLess(Scaled(f, i), call.res.error_estimate)

\* C22: each integrator step evaluates gravity a fixed number of times: a
\* step_rk4 call exactly 4 times, a step_leapfrog call exactly once, and a
\* step_dopri54 call exactly 7 times, whether it accepts or rejects and
\* whatever call came before it (the seventh stage is evaluated again by
\* every call and is never taken over as the next call's first stage).
C22_FixedEvaluations ==
    /\ call.op = "step_rk4" => call.evals = 4
    /\ call.op = "step_leapfrog" => call.evals = 1
    /\ call.op = "step_dopri54" => call.evals = 7

\* C22 witness: a step_dopri54 call entered on the two-body orbit right after
\* an accepted step, with the stored accelerations already those of the entry
\* positions, still made seven evaluations and was rejected
C22_Witness ==
    /\ ErrorAbove
    /\ call.evals = 7
    /\ pre.count = 2
    /\ pre.time = Eighth
    /\ Fresh(pre)

Rk4 == call.op = "step_rk4"

\* the state handed to the fourth gravity evaluation of the last step_rk4
\* call: the entry positions plus dt times the third-stage derivative
FourthTrial ==
    [pre EXCEPT
       !.px = Upd(@, pre.count, LAMBDA i : FAdd(pre.px[i], FMul(call.dt, scr.k3.x[i]))),
       !.py = Upd(@, pre.count, LAMBDA i : FAdd(pre.py[i], FMul(call.dt, scr.k3.y[i]))),
       !.pz = Upd(@, pre.count, LAMBDA i : FAdd(pre.pz[i], FMul(call.dt, scr.k3.z[i])))]

\* the accelerations stored in W are those of the positions of T
StoredAt(W, T) ==
    /\ W.ax = compute_gravity0(T).ax
    /\ W.ay = compute_gravity0(T).ay
    /\ W.az = compute_gravity0(T).az

\* at least two bodies with a mass
Interacting(W) ==
    \E i, j \in 1..W.count : i # j /\ W.mass[i] # Zero /\ W.mass[j] # Zero

\* the returned positions are those of the fourth-stage trial state
AtTrialPositions ==
    /\ w.px = FourthTrial.px
    /\ w.py = FourthTrial.py
    /\ w.pz = FourthTrial.pz

\* C25 as stated: on return from step_rk4 the stored accelerations are those
\* of the fourth-stage trial state, and after a step with dt # 0 on
\* interacting bodies they are not the accelerations of the returned
\* positions.
C25_StaleAfterRk4 ==
    Rk4 =>
        /\ StoredAt(w, FourthTrial)
        /\ (call.dt # Zero /\ Interacting(pre)) => ~Fresh(w)

\* C25, without the conclusion for every dt # 0: on return from step_rk4 the
\* stored accelerations are those of the fourth-stage trial state (entry
\* positions plus dt times the third-stage derivative), whatever the returned
\* positions are; they are the accelerations of the returned positions
\* whenever the returned positions are the trial positions, as after a step
\* too small to move a body.
C25_StaleAfterRk4For ==
    Rk4 =>
        /\ StoredAt(w, FourthTrial)
        /\ AtTrialPositions => Fresh(w)

\* C25 witness: a step_rk4 call with dt = 1/8 on the two-body orbit returned
\* with accelerations of the trial state that differ from those of the
\* positions it returned
C25_Witness ==
    /\ Rk4
    /\ call.dt = Eighth
    /\ Interacting(pre)
    /\ StoredAt(w, FourthTrial)
    /\ ~Fresh(w)

\* C24 as stated: over step_dopri54 calls made in a row on one store, the
\* increase of w.time since the first of them equals the sum of the dt_used
\* returned so far.
C24_TimeIsSum == Dopri => FSub(w.time, call.start) = call.total_time

\* C24, in floating point: a rejected call returns dt_used = 0 and leaves
\* w.time as it was, an accepted call returns dt_used = dt and leaves w.time
\* as the rounded sum of the entry time and dt; so w.time is the start time
\* with the dt_used added one by one in call order, which for a sequence
\* started at time 0 is the running sum of the dt_used itself.
C24_TimeIsSumFor ==
    Dopri =>
        /\ call.res.dt_used = (IF call.accepted THEN call.dt ELSE Zero)
        /\ w.time = FAdd(pre.time, call.res.dt_used)
        /\ call.start = Zero => w.time = call.total_time

\* C24 witness: two step_dopri54 calls in a row from time 0 on the two-body
\* orbit, the first accepted with dt = 1/8 and the second rejected: the time
\* and the sum of the dt_used are both 1/8
C24_Witness ==
    /\ ErrorAbove
    /\ pre.count = 2
    /\ pre.time = Eighth
    /\ call.start = Zero
    /\ call.total_time = Eighth
    /\ w.time = Eighth

\* a scratch whose vectors all have length n and hold values no call wrote
Garbage(n) == [i \in 1..n |-> NaN]
GarbageState(n) == [f \in DOMAIN NoState |-> Garbage(n)]
GarbageStage(n) == [f \in DOMAIN NoStage |-> Garbage(n)]
GarbageScratch(n) ==
    [scratch |-> GarbageState(n), k1 |-> GarbageStage(n), k2 |-> GarbageStage(n),
     k3 |-> GarbageStage(n), k4 |-> GarbageStage(n), k5 |-> GarbageStage(n),
     k6 |-> GarbageStage(n), k7 |-> GarbageStage(n)]

\* the scratch vectors a step_rk4 call indexes; step_dopri54 indexes all
Rk4Vectors == {"scratch", "k1", "k2", "k3", "k4"}
LongEnough(names) ==
    \A k \in names : \A f \in DOMAIN scr[k] : Len(scr[k][f]) >= pre.count

\* what the last step_dopri54 call gives on a scratch of length 3 holding
\* garbage
OnGarbage == step_dopri54(pre, GarbageScratch(3), call.dt, call.tol)

\* C26: the store left by a step_rk4 or step_dopri54 call and the StepResult it
\* returns depend only on the store at entry and the arguments, not on what
\* earlier calls of the thread, on other stores or body counts, left in the
\* scratch: they are what the same call gives on a scratch full of values no
\* call wrote (so no entry is read before the call wrote it), and every
\* scratch vector the call indexes has length >= count.
C26_ScratchInvisible ==
    /\ Rk4 => /\ w = step_rk4(pre, GarbageScratch(3), call.dt).W
              /\ LongEnough(Rk4Vectors)
    /\ Dopri => /\ w = OnGarbage.W
                /\ call.res = OnGarbage.res
                /\ LongEnough(DOMAIN scr)

\* C26 witness: a step_dopri54 call on the two-body store was accepted on
\* scratch that an earlier call of the thread had sized and filled for three
\* bodies; the third entries are still those of the earlier call
C26_Witness ==
    /\ ErrorWithin
    /\ call.dt = Eighth
    /\ pre.count = 2
    /\ Len(scr.scratch.px) = 3
    /\ Len(scr.k7.vx) = 3
    /\ scr.k7.vx[3] # Zero

\* the last call was accepted and used a positive time
Progressed == Dopri /\ call.accepted /\ FLess(Zero, call.res.dt_used)

====
